---------------------------- MODULE Spec2Model ----------------------------
(***************************************************************************)
(* Model of the hydro geodatabase loaders (src/geodatabase):               *)
(*   load_hydro_data.py   Location / DataLogger / Sensor / MeasuringPoint  *)
(*                        transformers, Metrics, load_data, write_*        *)
(*   load_hydro_photos.py load_photos (loop and feedback)                  *)
(*                                                                         *)
(* Python values are modelled as follows.                                  *)
(*   str       a TLA+ string; characters are read with SubSeq              *)
(*   None      the value None below, a string no source column holds       *)
(*   'Yes'/'No' the strings the code stores in the Has* attributes         *)
(*   float     its decimal literal as a string ("12.5"); the loaders only  *)
(*             copy and compare such values                                *)
(*   exception a record [exc |-> class name, msg |-> message]              *)
(* Log output is not state, with one exception: the periodic and final     *)
(* metrics reports of the drivers are counted.  The text of a log message  *)
(* is not computed: str() of a logged object is taken to return.  In       *)
(* load_hydro_data.py it does not (asdict, line 1881, names datetime,      *)
(* which the module never imports, so formatting a SourceData or a         *)
(* Location raises NameError); the model describes load_data with that     *)
(* import in place.                                                        *)
(***************************************************************************)
EXTENDS Integers, Sequences, FiniteSets, TLC

None == "<None>"

----------------------------------------------------------------------------
(* Python str methods used by the transformers                             *)

\* str.lower() on one character
UpperToLower ==
    [ A |-> "a", B |-> "b", C |-> "c", D |-> "d", E |-> "e", F |-> "f", G |-> "g",
      H |-> "h", I |-> "i", J |-> "j", K |-> "k", L |-> "l", M |-> "m", N |-> "n",
      O |-> "o", P |-> "p", Q |-> "q", R |-> "r", S |-> "s", T |-> "t", U |-> "u",
      V |-> "v", W |-> "w", X |-> "x", Y |-> "y", Z |-> "z" ]

LowerChar(c) == IF c \in DOMAIN UpperToLower THEN UpperToLower[c] ELSE c

RECURSIVE lower(_)
lower(s) ==
    IF Len(s) = 0 THEN ""
    ELSE LowerChar(SubSeq(s, 1, 1)) \o lower(SubSeq(s, 2, Len(s)))

\* Python `sub in s`
contains(sub, s) ==
    \E i \in 1..(Len(s) - Len(sub) + 1) : SubSeq(s, i, i + Len(sub) - 1) = sub

startswith(s, prefix) ==
    /\ Len(prefix) <= Len(s)
    /\ SubSeq(s, 1, Len(prefix)) = prefix

IsSpace(c) == c \in {" ", "\t", "\n", "\r"}

RECURSIVE lstrip(_)
lstrip(s) ==
    IF Len(s) > 0 /\ IsSpace(SubSeq(s, 1, 1))
    THEN lstrip(SubSeq(s, 2, Len(s)))
    ELSE s

RECURSIVE rstrip(_)
rstrip(s) ==
    IF Len(s) > 0 /\ IsSpace(SubSeq(s, Len(s), Len(s)))
    THEN rstrip(SubSeq(s, 1, Len(s) - 1))
    ELSE s

strip(s) == rstrip(lstrip(s))

\* str.split(sep) for a one-character separator: always at least one element
RECURSIVE split(_, _)
split(s, sep) ==
    IF \E i \in 1..Len(s) : SubSeq(s, i, i) = sep
    THEN LET i == CHOOSE j \in 1..Len(s) :
                    /\ SubSeq(s, j, j) = sep
                    /\ \A k \in 1..(j - 1) : SubSeq(s, k, k) # sep
         IN  <<SubSeq(s, 1, i - 1)>> \o split(SubSeq(s, i + 1, Len(s)), sep)
    ELSE <<s>>

\* mg.none2blank
none2blank(string) == IF string = None THEN "" ELSE string

\* isempty: None or a whitespace-only string
isempty(value) ==
    IF value = None THEN TRUE
    ELSE Len(strip(value)) = 0

\* Python truth value of an attribute that holds None or a str
Truthy(value) == value # None /\ Len(value) > 0

\* Exceptions
NoExc == [exc |-> "None", msg |-> ""]
ValueError(m) == [exc |-> "ValueError", msg |-> m]
AttributeError(m) == [exc |-> "AttributeError", msg |-> m]


\* "no object": the value of location.data_logger when there is none, and of a
\* cursor fetch that found no row
NoneObj == [none |-> TRUE]

\* Run one transform_* function unless an earlier one already raised
Then(self, f(_)) == IF self.exc # NoExc THEN self ELSE f(self)

----------------------------------------------------------------------------
(* class DataLogger                                                        *)

DataLogger_ATTRIBUTES ==
    <<"Type", "SerialNumber", "LowBattery", "LowBatteryUnits", "IsActive", "Comments">>

DataLogger_initialize_attributes(type_, serial_number) ==
    [ _type |-> type_, _serial_number |-> serial_number,
      Type |-> None, SerialNumber |-> None, LowBattery |-> None,
      LowBatteryUnits |-> None, IsActive |-> None, Comments |-> None,
      exc |-> NoExc ]

DataLogger_transform_isactive(self) == [self EXCEPT !.IsActive = "Yes"]

DataLogger_transform_serialnumber(self) ==
    IF isempty(self._serial_number)
    THEN [self EXCEPT !.exc = ValueError("Data Logger: Missing serial number")]
    ELSE [self EXCEPT !.SerialNumber = strip(self._serial_number)]

\* transform_type keeping the text as given, blanks included
DataLogger_transform_type_untrimmed(self) ==
    IF isempty(self._serial_number)
    THEN [self EXCEPT !.exc = ValueError("Data Logger: Missing type")]
    ELSE [self EXCEPT !.Type = self._type]

\* The guard reads _serial_number, as the source does; None.strip() raises
\* AttributeError
DataLogger_transform_type(self) ==
    IF isempty(self._serial_number)
    THEN [self EXCEPT !.exc = ValueError("Data Logger: Missing type")]
    ELSE IF self._type = None
    THEN [self EXCEPT !.exc = AttributeError("'NoneType' object has no attribute 'strip'")]
    ELSE [self EXCEPT !.Type = strip(self._type)]

DataLogger_transform_lowbattery(self) ==
    IF self.Type = "OTT Orpheus Mini"
    THEN [self EXCEPT !.LowBattery = "4"]
    ELSE IF self.Type \in { "High Sierra 3208", "Sutron 9210", "Sutron CDMALink",
                            "Sutron SatLink 3", "Sutron XLink 100", "Sutron XLink 500",
                            "WaterLog H500XL", "WaterLog H522+", "WaterLog Storm" }
    THEN [self EXCEPT !.LowBattery = "12.5", !.LowBatteryUnits = "Volts"]
    ELSE IF self.Type \in { "In-Situ Level Troll 500", "In-Situ Level Troll 700",
                            "In-Situ Rugged Baro Troll", "In-Situ Rugged Troll",
                            "Keller CTD" }
    THEN [self EXCEPT !.LowBattery = "40", !.LowBatteryUnits = "Percent"]
    ELSE IF self.Type \in { "OTT Ecolog 1000" }
    THEN [self EXCEPT !.LowBattery = "18000", !.LowBatteryUnits = "mAh"]
    ELSE [self EXCEPT !.exc =
            ValueError("Data Logger: Unknown low battery level / units for type")]

DataLogger_transform(self) ==
    Then(Then(Then(Then(self,
        DataLogger_transform_isactive),
        DataLogger_transform_serialnumber),
        DataLogger_transform_type),
        DataLogger_transform_lowbattery)

\* DataLogger(type_, serial_number): the constructed object; exc # NoExc when
\* the constructor raised
DataLogger(type_, serial_number) ==
    DataLogger_transform(DataLogger_initialize_attributes(type_, serial_number))

----------------------------------------------------------------------------
(* class Sensor                                                            *)

Sensor_ATTRIBUTES == <<"Type", "SerialNumber", "IsActive", "Comments">>

Sensor_initialize_attributes(type_, serial_number) ==
    [ _type |-> type_, _serial_number |-> serial_number,
      Type |-> None, SerialNumber |-> None, IsActive |-> None, Comments |-> None,
      exc |-> NoExc ]

Sensor_transform_isactive(self) == [self EXCEPT !.IsActive = "Yes"]

Sensor_transform_serialnumber(self) ==
    IF isempty(self._serial_number)
    THEN [self EXCEPT !.exc = ValueError("Sensor: Missing serial number")]
    ELSE [self EXCEPT !.SerialNumber = strip(self._serial_number)]

Sensor_transform_type(self) ==
    IF isempty(self._type)
    THEN [self EXCEPT !.exc = ValueError("Sensor: Missing type")]
    ELSE [self EXCEPT !.Type = strip(self._type)]

Sensor_transform(self) ==
    Then(Then(Then(self,
        Sensor_transform_isactive),
        Sensor_transform_serialnumber),
        Sensor_transform_type)

Sensor(type_, serial_number) ==
    Sensor_transform(Sensor_initialize_attributes(type_, serial_number))

----------------------------------------------------------------------------
(* class MeasuringPoint                                                    *)

MeasuringPoint_ATTRIBUTES ==
    <<"Name", "AquariusID", "Description", "Elevation", "IsActive", "DisplayOrder",
      "Comments">>

HexDigits ==
    {"0", "1", "2", "3", "4", "5", "6", "7", "8", "9", "a", "b", "c", "d", "e", "f"}

RECURSIVE remove(_, _)
remove(s, chars) ==
    IF Len(s) = 0 THEN ""
    ELSE (IF SubSeq(s, 1, 1) \in chars THEN "" ELSE SubSeq(s, 1, 1))
            \o remove(SubSeq(s, 2, Len(s)), chars)

\* uuid.UUID(hex): braces and hyphens dropped, then exactly 32 hexadecimal
\* digits are required; the value is kept in its lower-case hexadecimal form
uuid_hex(s) == lower(remove(s, {"{", "}", "-"}))

uuid_wellformed(s) ==
    LET hex == uuid_hex(s)
    IN  /\ Len(hex) = 32
        /\ \A i \in 1..32 : SubSeq(hex, i, i) \in HexDigits

MeasuringPoint_initialize_attributes(source_data) ==
    [ source_data |-> source_data,
      Name |-> None, AquariusID |-> None, Description |-> None, Elevation |-> None,
      IsActive |-> None, DisplayOrder |-> None, Comments |-> None,
      exc |-> NoExc ]

MeasuringPoint_transform_aquariusid(self) ==
    IF isempty(self.source_data.UniqueId)
    THEN [self EXCEPT !.exc = ValueError("Measuring Point: Missing Aquarius ID")]
    ELSE IF ~uuid_wellformed(self.source_data.UniqueId)
    THEN [self EXCEPT !.exc = ValueError("badly formed hexadecimal UUID string")]
    ELSE [self EXCEPT !.AquariusID = uuid_hex(self.source_data.UniqueId)]

MeasuringPoint_transform_description(self) ==
    IF ~isempty(self.source_data.Description)
    THEN [self EXCEPT !.Description = strip(self.source_data.Description)]
    ELSE self

MeasuringPoint_transform_displayorder(self) ==
    [self EXCEPT !.DisplayOrder = self.source_data.DisplayOrder]

MeasuringPoint_transform_elevation(self) ==
    IF isempty(self.source_data.ReferencePointPeriods_0_Elevation)
    THEN [self EXCEPT !.exc = ValueError("Measuring Point: Missing elevation")]
    ELSE [self EXCEPT !.Elevation = self.source_data.ReferencePointPeriods_0_Elevation]

MeasuringPoint_transform_isactive(self) == [self EXCEPT !.IsActive = "Yes"]

MeasuringPoint_transform_name(self) ==
    IF ~isempty(self.source_data.Name)
    THEN [self EXCEPT !.Name = strip(self.source_data.Name)]
    ELSE self

MeasuringPoint_transform(self) ==
    Then(Then(Then(Then(Then(Then(self,
        MeasuringPoint_transform_aquariusid),
        MeasuringPoint_transform_description),
        MeasuringPoint_transform_displayorder),
        MeasuringPoint_transform_elevation),
        MeasuringPoint_transform_isactive),
        MeasuringPoint_transform_name)

MeasuringPoint(source_data) ==
    MeasuringPoint_transform(MeasuringPoint_initialize_attributes(source_data))

----------------------------------------------------------------------------
(* class Location                                                          *)

Location_ATTRIBUTES ==
    <<"shape", "NWFID", "Name", "Project", "FLUWID", "HasDataLogger", "HasSensor",
      "HasMeasuringPoint", "HasRainfall", "HasStage", "HasGroundwater",
      "HasConductivity", "HasADVM", "HasDischarge", "HasTemperature",
      "HasWaterQuality", "Comments">>

Digit(d) == SubSeq("0123456789", d + 1, d + 1)

\* str(int) for a non-negative int
RECURSIVE str_int(_)
str_int(n) == IF n < 10 THEN Digit(n) ELSE str_int(n \div 10) \o Digit(n % 10)

\* f'{value:>06}': right-aligned in six columns, filled with zeros
RECURSIVE zfill6(_)
zfill6(s) == IF Len(s) >= 6 THEN s ELSE zfill6("0" \o s)

IsDigits(s) ==
    /\ Len(s) > 0
    /\ \A i \in 1..Len(s) : SubSeq(s, i, i) \in {"0","1","2","3","4","5","6","7","8","9"}

RECURSIVE drop_leading_zeros(_)
drop_leading_zeros(s) ==
    IF Len(s) > 1 /\ SubSeq(s, 1, 1) = "0"
    THEN drop_leading_zeros(SubSeq(s, 2, Len(s)))
    ELSE s

Location_initialize_attributes(data_aq_stations, data_district_monitoring, data_measuring_points) ==
    [ data_aq_stations |-> data_aq_stations,
      data_district_monitoring |-> data_district_monitoring,
      data_measuring_points |-> data_measuring_points,
      shape |-> None, NWFID |-> None, Name |-> None, Project |-> None,
      FLUWID |-> None, HasDataLogger |-> None, HasSensor |-> None,
      HasMeasuringPoint |-> None, HasRainfall |-> None, HasStage |-> None,
      HasGroundwater |-> None, HasConductivity |-> None, HasADVM |-> None,
      HasDischarge |-> None, HasTemperature |-> None, HasWaterQuality |-> None,
      Comments |-> None,
      _rejected_measuring_point_count |-> 0,
      data_logger |-> NoneObj,
      measuring_points |-> <<>>,
      sensors |-> <<>>,
      exc |-> NoExc ]

YesNo(b) == IF b THEN "Yes" ELSE "No"

\* The monitoring-type text every Has* transformer tests
Monitoring_Type_lower(self) ==
    lower(none2blank(self.data_district_monitoring.Monitoring_Type))

transform_fluwid(self) ==
    IF self.data_aq_stations.FLUWID = None
    THEN [self EXCEPT !.FLUWID = None]
    ELSE [self EXCEPT !.FLUWID = strip(self.data_aq_stations.FLUWID)]

transform_hasadvm(self) ==
    [self EXCEPT !.HasADVM = YesNo(contains("vel.ind", Monitoring_Type_lower(self)))]

transform_hasconductivity(self) ==
    [self EXCEPT !.HasConductivity = YesNo(contains("cond", Monitoring_Type_lower(self)))]

transform_hasdischarge(self) ==
    [self EXCEPT !.HasDischarge = YesNo(contains("discharge", Monitoring_Type_lower(self)))]

transform_hasgroundwater(self) ==
    [self EXCEPT !.HasGroundwater = YesNo(contains("gw level", Monitoring_Type_lower(self)))]

transform_hasrainfall(self) ==
    [self EXCEPT !.HasRainfall = YesNo(contains("rainfall", Monitoring_Type_lower(self)))]

\* The same rule with the two tests in the opposite order
hasstage_general_first(monitoring_type) ==
    IF contains("stage", monitoring_type) THEN "Yes"
    ELSE IF contains("d-stage", monitoring_type) THEN "No"
    ELSE "No"

\* transform_hasstage on the lower-cased monitoring type
hasstage(monitoring_type) ==
    IF contains("d-stage", monitoring_type) THEN "No"
    ELSE IF contains("stage", monitoring_type) THEN "Yes"
    ELSE "No"

transform_hasstage(self) ==
    [self EXCEPT !.HasStage = hasstage(Monitoring_Type_lower(self))]

transform_hastemperature(self) ==
    [self EXCEPT !.HasTemperature = YesNo(contains("temp", Monitoring_Type_lower(self)))]

transform_haswaterquality(self) ==
    [self EXCEPT !.HasWaterQuality = YesNo(contains("wq", Monitoring_Type_lower(self)))]

transform_name(self) ==
    IF ~isempty(self.data_district_monitoring.Station_Name)
    THEN [self EXCEPT !.Name = strip(self.data_district_monitoring.Station_Name)]
    ELSE self

transform_nwfid(self) ==
    IF isempty(self.data_aq_stations.LocationIdentifier)
    THEN [self EXCEPT !.exc = ValueError("Aquarius: Missing location identifier")]
    ELSE [self EXCEPT !.NWFID = zfill6(self.data_aq_stations.LocationIdentifier)]

\* int(Project_Number); a value int() refuses is logged and Project stays None
transform_project(self) ==
    IF ~isempty(self.data_district_monitoring.Project_Number)
    THEN IF IsDigits(strip(self.data_district_monitoring.Project_Number))
         THEN [self EXCEPT !.Project =
                 drop_leading_zeros(strip(self.data_district_monitoring.Project_Number))]
         ELSE self
    ELSE self

transform_shape(self) == [self EXCEPT !.shape = self.data_aq_stations.Shape]

XOR(a, b) == (a /\ ~b) \/ (~a /\ b)

MsgDataLoggerPair == "District Monitoring: Data Logger must have both type and serial number"
MsgDataLoggerRequired == "District Monitoring: Data Logger required for Location with ADVM or rainfall"
MsgTippingBucketPair == "District Monitoring: Tipping bucket must have both type and serial number"
MsgTippingBucketRequired == "District Monitoring: Tipping bucket required for Location with rainfall"
MsgSensorList == "District Monitoring: Sensor list must have type and serial number for each sensor"
MsgMeasuringPointRequired == "Measuring Point: Measuring Point required for Location with groundwater or stage"
MsgNoMonitoringType == "District Monitoring: No monitoring type"
MsgSensorsWithoutDataLogger == "District Monitoring: Location has Sensors without Data Logger"

\* transform__datalogger without its test for a half-filled pair
transform__datalogger_unpaired(self) ==
    LET type_ == self.data_district_monitoring.Type_of_Recorder
        serial_number == self.data_district_monitoring.Recorder_Serial__
    IN  IF ~isempty(type_) /\ ~isempty(serial_number)
        THEN LET dl == DataLogger(strip(type_), strip(serial_number))
             IN  IF dl.exc # NoExc
                 THEN [self EXCEPT !.exc = dl.exc]
                 ELSE [self EXCEPT !.data_logger = dl]
        ELSE IF self.HasADVM = "Yes" \/ self.HasRainfall = "Yes"
        THEN [self EXCEPT !.exc = ValueError(MsgDataLoggerRequired)]
        ELSE self

\* Location.transform__datalogger: recorder type and serial number come as a pair
transform__datalogger(self) ==
    LET type_ == self.data_district_monitoring.Type_of_Recorder
        serial_number == self.data_district_monitoring.Recorder_Serial__
    IN  IF ~isempty(type_) /\ ~isempty(serial_number)
        THEN LET dl == DataLogger(strip(type_), strip(serial_number))
             IN  IF dl.exc # NoExc
                 THEN [self EXCEPT !.exc = dl.exc]
                 ELSE [self EXCEPT !.data_logger = dl]
        ELSE IF XOR(isempty(type_), isempty(serial_number))
        THEN [self EXCEPT !.exc = ValueError(MsgDataLoggerPair)]
        ELSE IF self.HasADVM = "Yes" \/ self.HasRainfall = "Yes"
        THEN [self EXCEPT !.exc = ValueError(MsgDataLoggerRequired)]
        ELSE self

\* The business rules of transform__measuringpoints for one source record:
\* the list of reject messages, or the exception raised while testing
\* (None has no lower())
reject_messages(source_data) ==
    LET flag == source_data.ReferencePointPeriods_0_IsMeasuredAgainstLocalAssumedDatum
        name == source_data.Name
        decommissioned ==
            IF source_data.DecommissionedDate # None
            THEN <<"DecommissionedDate is not NULL">>
            ELSE <<>>
    IN  IF flag = None
        THEN [exc |-> AttributeError("'NoneType' object has no attribute 'lower'"),
              messages |-> <<>>]
        ELSE IF lower(flag) \in {"true", "false"} /\ name = None
        THEN [exc |-> AttributeError("'NoneType' object has no attribute 'lower'"),
              messages |-> <<>>]
        ELSE IF lower(flag) = "true"
        THEN [exc |-> NoExc,
              messages |->
                (IF startswith(lower(name), "ref point is")
                 THEN <<"IsMeasuredAgainstLocalAssumedDatum is TRUE and Name starts with 'Ref point is'">>
                 ELSE <<>>) \o decommissioned]
        ELSE IF lower(flag) = "false"
        THEN [exc |-> NoExc,
              messages |->
                (IF strip(lower(name)) = "land surface datum"
                 THEN <<"IsMeasuredAgainstLocalAssumedDatum is FALSE and Name is 'Land Surface Datum'">>
                 ELSE IF strip(lower(name)) = "navd88 0ft"
                 THEN <<"IsMeasuredAgainstLocalAssumedDatum is FALSE and Name is 'NAVD88 0ft'">>
                 ELSE IF strip(lower(name)) = "ngvd29 0ft"
                 THEN <<"IsMeasuredAgainstLocalAssumedDatum is FALSE and Name is 'NGVD29 0ft'">>
                 ELSE IF strip(lower(name)) = "slab"
                 THEN <<"IsMeasuredAgainstLocalAssumedDatum is FALSE and Name is 'Slab'">>
                 ELSE <<>>) \o decommissioned]
        ELSE [exc |-> NoExc,
              messages |->
                <<"IsMeasuredAgainstLocalAssumedDatum: expected TRUE or FALSE">>
                    \o decommissioned]

\* The for loop of transform__measuringpoints from record i on
RECURSIVE measuringpoints_loop(_, _)
measuringpoints_loop(self, i) ==
    IF self.exc # NoExc \/ i > Len(self.data_measuring_points)
    THEN self
    ELSE LET source_data == self.data_measuring_points[i]
             r == reject_messages(source_data)
         IN  IF r.exc # NoExc
             THEN [self EXCEPT !.exc = r.exc]
             ELSE IF Len(r.messages) = 0
             THEN LET mp == MeasuringPoint(source_data)
                  IN  IF mp.exc # NoExc
                      THEN [self EXCEPT !.exc = mp.exc]
                      ELSE measuringpoints_loop(
                             [self EXCEPT !.measuring_points = Append(@, mp)], i + 1)
             ELSE measuringpoints_loop(
                    [self EXCEPT !._rejected_measuring_point_count = @ + 1], i + 1)

\* The count test asking for a Measuring Point only where groundwater is
\* monitored
transform__measuringpoints_groundwater_only(self) ==
    LET looped == measuringpoints_loop(self, 1)
    IN  IF looped.exc # NoExc
        THEN looped
        ELSE IF Len(looped.measuring_points) = 0 /\ looped.HasGroundwater = "Yes"
        THEN [looped EXCEPT !.exc = ValueError(MsgMeasuringPointRequired)]
        ELSE looped

\* Location.transform__measuringpoints: the loop, then "Evaluate Measuring
\* Point count"
transform__measuringpoints(self) ==
    LET looped == measuringpoints_loop(self, 1)
    IN  IF looped.exc # NoExc
        THEN looped
        ELSE IF Len(looped.measuring_points) = 0
                /\ (looped.HasGroundwater = "Yes" \/ looped.HasStage = "Yes")
        THEN [looped EXCEPT !.exc = ValueError(MsgMeasuringPointRequired)]
        ELSE looped

\* The tipping-bucket part without the rule for rainfall Locations
sensors_tipping_bucket_optional(self) ==
    LET tb_type == self.data_district_monitoring.Type_of_Tipping_Bucket
        tb_serial_number == self.data_district_monitoring.T_B__Serial__
    IN  IF ~isempty(tb_type) /\ ~isempty(tb_serial_number)
        THEN LET sensor == Sensor(strip(tb_type), strip(tb_serial_number))
             IN  IF sensor.exc # NoExc
                 THEN [self EXCEPT !.exc = sensor.exc]
                 ELSE [self EXCEPT !.sensors = Append(@, sensor)]
        ELSE IF XOR(isempty(tb_type), isempty(tb_serial_number))
        THEN [self EXCEPT !.exc = ValueError(MsgTippingBucketPair)]
        ELSE self


\* The tipping-bucket part of transform__sensors
sensors_tipping_bucket(self) ==
    LET tb_type == self.data_district_monitoring.Type_of_Tipping_Bucket
        tb_serial_number == self.data_district_monitoring.T_B__Serial__
    IN  IF ~isempty(tb_type) /\ ~isempty(tb_serial_number)
        THEN LET sensor == Sensor(strip(tb_type), strip(tb_serial_number))
             IN  IF sensor.exc # NoExc
                 THEN [self EXCEPT !.exc = sensor.exc]
                 ELSE [self EXCEPT !.sensors = Append(@, sensor)]
        ELSE IF XOR(isempty(tb_type), isempty(tb_serial_number))
        THEN [self EXCEPT !.exc = ValueError(MsgTippingBucketPair)]
        ELSE IF self.HasRainfall = "Yes"
        THEN [self EXCEPT !.exc = ValueError(MsgTippingBucketRequired)]
        ELSE self

\* The for loop over the split sensor lists from position i on
RECURSIVE sensors_loop(_, _, _, _)
sensors_loop(self, sensor_type_list, sensor_serial_number_list, i) ==
    IF self.exc # NoExc \/ i > Len(sensor_type_list)
    THEN self
    ELSE LET sensor == Sensor(strip(sensor_type_list[i]),
                              strip(sensor_serial_number_list[i]))
         IN  IF sensor.exc # NoExc
             THEN [self EXCEPT !.exc = sensor.exc]
             ELSE sensors_loop([self EXCEPT !.sensors = Append(@, sensor)],
                               sensor_type_list, sensor_serial_number_list, i + 1)

\* The other-sensors part pairing the lists up to the shorter one
sensors_other_truncating(self) ==
    LET sensor_types == self.data_district_monitoring.Type_of_Sensor
        sensor_serial_numbers == self.data_district_monitoring.Sensor_Serial__
    IN  IF ~isempty(sensor_types) /\ ~isempty(sensor_serial_numbers)
        THEN LET sensor_type_list == split(sensor_types, "|")
                 sensor_serial_number_list == split(sensor_serial_numbers, "|")
                 n == IF Len(sensor_type_list) < Len(sensor_serial_number_list)
                      THEN Len(sensor_type_list) ELSE Len(sensor_serial_number_list)
             IN  sensors_loop(self, SubSeq(sensor_type_list, 1, n),
                              SubSeq(sensor_serial_number_list, 1, n), 1)
        ELSE IF XOR(isempty(sensor_types), isempty(sensor_serial_numbers))
        THEN [self EXCEPT !.exc = ValueError(MsgSensorList)]
        ELSE self


\* The other-sensors part of transform__sensors
sensors_other(self) ==
    LET sensor_types == self.data_district_monitoring.Type_of_Sensor
        sensor_serial_numbers == self.data_district_monitoring.Sensor_Serial__
    IN  IF ~isempty(sensor_types) /\ ~isempty(sensor_serial_numbers)
        THEN LET sensor_type_list == split(sensor_types, "|")
                 sensor_serial_number_list == split(sensor_serial_numbers, "|")
             IN  IF Len(sensor_type_list) # Len(sensor_serial_number_list)
                 THEN [self EXCEPT !.exc = ValueError(MsgSensorList)]
                 ELSE sensors_loop(self, sensor_type_list, sensor_serial_number_list, 1)
        ELSE IF XOR(isempty(sensor_types), isempty(sensor_serial_numbers))
        THEN [self EXCEPT !.exc = ValueError(MsgSensorList)]
        ELSE self

transform__sensors(self) == Then(sensors_tipping_bucket(self), sensors_other)

transform_hasdatalogger(self) ==
    [self EXCEPT !.HasDataLogger = YesNo(self.data_logger # NoneObj)]

transform_hasmeasuringpoint(self) ==
    [self EXCEPT !.HasMeasuringPoint = YesNo(Len(self.measuring_points) > 0)]

transform_hassensor(self) ==
    [self EXCEPT !.HasSensor = YesNo(Len(self.sensors) > 0)]

\* Location.transform, first group: "Location properties"
transform_properties(self) ==
    Then(Then(Then(Then(Then(Then(Then(Then(Then(Then(Then(Then(Then(self,
        transform_fluwid),
        transform_hasadvm),
        transform_hasconductivity),
        transform_hasdischarge),
        transform_hasgroundwater),
        transform_hasrainfall),
        transform_hasstage),
        transform_hastemperature),
        transform_haswaterquality),
        transform_name),
        transform_nwfid),
        transform_project),
        transform_shape)

\* Location.transform, second group: "Related data"
transform_related(self) ==
    Then(Then(Then(self,
        transform__datalogger),
        transform__measuringpoints),
        transform__sensors)

\* Location.transform, third group: "Location properties based on related data"
transform_derived(self) ==
    Then(Then(Then(self,
        transform_hasdatalogger),
        transform_hasmeasuringpoint),
        transform_hassensor)

\* The three groups with the related data built before the properties
Location_transform_related_first(self) ==
    Then(Then(Then(self, transform_related), transform_properties), transform_derived)

Location_transform(self) ==
    Then(Then(Then(self, transform_properties), transform_related), transform_derived)

\* `not (self.HasRainfall or self.HasStage or ...)`: the truth values of the
\* attributes, which hold the strings 'Yes' and 'No'
no_monitoring_type(self) ==
    ~(\/ Truthy(self.HasRainfall)
      \/ Truthy(self.HasStage)
      \/ Truthy(self.HasGroundwater)
      \/ Truthy(self.HasConductivity)
      \/ Truthy(self.HasADVM)
      \/ Truthy(self.HasDischarge)
      \/ Truthy(self.HasTemperature)
      \/ Truthy(self.HasWaterQuality))

\* The integrity check without its test of sensors against the data logger
check_integrity_monitoring_type_only(self) ==
    IF no_monitoring_type(self)
    THEN [self EXCEPT !.exc = ValueError(MsgNoMonitoringType)]
    ELSE self


\* "Check multi-property integrity" of Location.__init__
check_integrity(self) ==
    IF no_monitoring_type(self)
    THEN [self EXCEPT !.exc = ValueError(MsgNoMonitoringType)]
    ELSE IF self.data_logger = NoneObj /\ Len(self.sensors) > 0
    THEN [self EXCEPT !.exc = ValueError(MsgSensorsWithoutDataLogger)]
    ELSE self

\* Location(...): the constructed object; exc # NoExc when __init__ raised
Location(data_aq_stations, data_district_monitoring, data_measuring_points) ==
    Then(Location_transform(
            Location_initialize_attributes(
                data_aq_stations, data_district_monitoring, data_measuring_points)),
         check_integrity)

\* fetch_district_monitoring over the rows of the cache that match the
\* Location ID: no match is None, a second match raises
fetch_district_monitoring(matches) ==
    IF Len(matches) > 1
    THEN [exc |-> ValueError("District Monitoring: Multiple records found for Location ID")]
    ELSE IF Len(matches) = 0
    THEN NoneObj
    ELSE matches[1]

\* get_location: the Location, or a record holding the exception it raises.
\* district_matches and data_measuring_points are what the two fetches find
\* for the Location ID.
get_location(data_aq_stations, district_matches, data_measuring_points) ==
    LET data_district_monitoring == fetch_district_monitoring(district_matches)
    IN  IF data_district_monitoring = NoneObj
        THEN [exc |-> ValueError("District Monitoring: No data found")]
        ELSE IF Len(district_matches) > 1
        THEN data_district_monitoring
        ELSE Location(data_aq_stations, data_district_monitoring, data_measuring_points)

----------------------------------------------------------------------------
(* class Metrics (load_hydro_data.py)                                      *)

\* None as the value of a counter ("disabled"). _check_count lets None
\* through and refuses a negative int, so no counter holds a negative int.
NoneCount == -1

\* Metrics.__init__
Metrics ==
    [ data_logger_failed |-> 0, data_logger_succeeded |-> 0,
      location_failed |-> 0, location_succeeded |-> 0,
      measuring_point_failed |-> 0, measuring_point_succeeded |-> 0,
      sensor_failed |-> 0, sensor_succeeded |-> 0 ]

\* `count or 0`
or0(count) == IF count = NoneCount \/ count = 0 THEN 0 ELSE count

\* A total that is None as soon as one of the two counters is None
_get_total_none_if_any(succeeded, failed) ==
    IF succeeded = NoneCount \/ failed = NoneCount
    THEN NoneCount
    ELSE succeeded + failed

\* Metrics._get_total
_get_total(succeeded, failed) ==
    IF succeeded = NoneCount /\ failed = NoneCount
    THEN NoneCount
    ELSE or0(succeeded) + or0(failed)

location_total(m) == _get_total(m.location_succeeded, m.location_failed)

----------------------------------------------------------------------------
(* The target geodatabase as load_data uses it: four tables, and an        *)
(* arcpy.da.Editor whose edits are pending until stopEditing(True)         *)

EmptyTables == [Location |-> {}, DataLogger |-> {}, Sensor |-> {}, MeasuringPoint |-> {}]

Tables == {"Location", "DataLogger", "Sensor", "MeasuringPoint"}

\* editor = arcpy.da.Editor(target_gdb)
Editor == [editing |-> FALSE, pending |-> EmptyTables]

startEditing(ed) == [ed EXCEPT !.editing = TRUE]

\* editor.stopEditing(save_changes): the pending rows are saved or dropped
stopEditing(committed, ed, save_changes) ==
    [ gdb |-> IF save_changes
              THEN [t \in Tables |-> committed[t] \cup ed.pending[t]]
              ELSE committed,
      editor |-> [editing |-> FALSE, pending |-> EmptyTables] ]

\* The ObjectID the table gives its next row
next_objectid(committed, ed, table) ==
    Cardinality(committed[table]) + Cardinality(ed.pending[table]) + 1

\* cursor.insertRow(row): the row joins the pending rows of the table
insertRow(committed, ed, table, row) ==
    [ed EXCEPT !.pending[table] =
        @ \cup {[OBJECTID |-> next_objectid(committed, ed, table),
                 GlobalID |-> next_objectid(committed, ed, table),
                 values |-> row]}]

\* object.name = value
setattr(object, name, value) ==
    [a \in DOMAIN object \cup {name} |-> IF a = name THEN value ELSE object[a]]

Range(seq) == {seq[i] : i \in 1..Len(seq)}

\* "Building row": getattr(object, field_name) for each field of the cursor;
\* an attribute the object lacks raises AttributeError
build_row(object, field_names) ==
    IF Range(field_names) \subseteq DOMAIN object
    THEN [exc |-> NoExc, row |-> [a \in Range(field_names) |-> object[a]]]
    ELSE [exc |-> AttributeError("object has no attribute"), row |-> NoneObj]

StoreError == [exc |-> "RuntimeError", msg |-> "the geodatabase refused the operation"]

write_location_field_names ==
    <<"shape", "NWFID", "Name", "Project", "FLUWID", "HasDataLogger", "HasSensor",
      "HasMeasuringPoint", "HasRainfall", "HasStage", "HasGroundwater",
      "HasConductivity", "HasADVM", "HasDischarge", "HasTemperature",
      "HasWaterQuality", "Comments">>

write_data_logger_field_names ==
    <<"Type", "SerialNumber", "LowVoltage", "Comments", "LocationGlobalID">>

write_measuring_point_field_names ==
    <<"Name", "AquariusID", "Description", "Elevation", "IsActive", "DisplayOrder",
      "Comments", "LocationGlobalID">>

write_sensors_field_names ==
    <<"Type", "SerialNumber", "Comments", "DataLoggerGlobalID">>

\* data_logger_globalid = None
NoneID == 0

\* Insert one row and fetch its GlobalID, as write_location and
\* write_data_logger do after the row is built. fault: 0 none, 1 insertRow
\* raises, 2 the GlobalID fetch raises.
insert_and_fetch(committed, ed, table, built, fault) ==
    LET inserted == insertRow(committed, ed, table, built.row)
    IN  IF built.exc # NoExc
        THEN [exc |-> built.exc, editor |-> ed, globalid |-> NoneID]
        ELSE IF fault = 1
        THEN [exc |-> StoreError, editor |-> ed, globalid |-> NoneID]
        ELSE IF fault = 2
        THEN [exc |-> StoreError, editor |-> inserted, globalid |-> NoneID]
        ELSE [exc |-> NoExc, editor |-> inserted,
              globalid |-> next_objectid(committed, ed, table)]

\* The result of a write_* function: the exception it raised (or NoExc), the
\* editor and the Location afterwards, and what it returns
write_location(committed, ed, loc, fault) ==
    LET w == insert_and_fetch(committed, ed, "Location",
                              build_row(loc, write_location_field_names), fault)
    IN  [exc |-> w.exc, editor |-> w.editor, location |-> loc, globalid |-> w.globalid]

write_data_logger(committed, ed, loc, location_globalid, fault) ==
    LET data_logger == setattr(loc.data_logger, "LocationGlobalID", location_globalid)
        w == insert_and_fetch(committed, ed, "DataLogger",
                              build_row(data_logger, write_data_logger_field_names),
                              fault)
    IN  [exc |-> w.exc, editor |-> w.editor,
         location |-> [loc EXCEPT !.data_logger = data_logger],
         globalid |-> w.globalid]

\* The for loop of write_sensors and of write_measuring_point from object i
\* on. fault: 0 none, k the k-th insertRow raises. acc holds the exception,
\* the editor, the objects and the ObjectIDs so far.
RECURSIVE write_each(_, _, _, _, _, _, _, _)
write_each(committed, acc, table, fk_name, fk, field_names, fault, i) ==
    IF acc.exc # NoExc \/ i > Len(acc.objects)
    THEN acc
    ELSE LET object == setattr(acc.objects[i], fk_name, fk)
             built == build_row(object, field_names)
             set == [acc EXCEPT !.objects[i] = object]
         IN  IF built.exc # NoExc
             THEN [set EXCEPT !.exc = built.exc]
             ELSE IF fault = i
             THEN [set EXCEPT !.exc = StoreError]
             ELSE write_each(
                    committed,
                    [set EXCEPT
                        !.editor = insertRow(committed, acc.editor, table, built.row),
                        !.objectids = Append(@, next_objectid(committed, acc.editor, table))],
                    table, fk_name, fk, field_names, fault, i + 1)

write_sensors(committed, ed, loc, data_logger_globalid, fault) ==
    LET w == write_each(committed,
                        [exc |-> NoExc, editor |-> ed, objects |-> loc.sensors,
                         objectids |-> <<>>],
                        "Sensor", "DataLoggerGlobalID", data_logger_globalid,
                        write_sensors_field_names, fault, 1)
    IN  [exc |-> w.exc, editor |-> w.editor,
         location |-> [loc EXCEPT !.sensors = w.objects], objectids |-> w.objectids]

write_measuring_point(committed, ed, loc, location_globalid, fault) ==
    LET w == write_each(committed,
                        [exc |-> NoExc, editor |-> ed, objects |-> loc.measuring_points,
                         objectids |-> <<>>],
                        "MeasuringPoint", "LocationGlobalID", location_globalid,
                        write_measuring_point_field_names, fault, 1)
    IN  [exc |-> w.exc, editor |-> w.editor,
         location |-> [loc EXCEPT !.measuring_points = w.objects],
         objectids |-> w.objectids]

----------------------------------------------------------------------------
(* State                                                                   *)

VARIABLES
    script,             \* what this behaviour runs: a loader or a constructor
    args,               \* constructor run: the source data handed in
    result,             \* constructor run: the object built, NoneObj before
    pc,                 \* loader: the step the loop is at
    feedback,           \* loader: the feedback interval argument
    n_read,             \* loader: rows fetched from the source cursor so far
    location,           \* load_data: the Location of the current row
    metrics_input,      \* loader: input Metrics counters
    metrics_output,     \* loader: output Metrics counters
    editor,             \* load_data: arcpy.da.Editor: editing flag, pending rows
    gdb,                \* load_data: committed rows of the target tables
    locals,             \* load_data: location_globalid, data_logger_globalid, ...
    reports,            \* loader: metrics reports logged: periodic and final
    last                \* loader: how the latest iteration ended, and the
                        \* counters and tables it started from

vars ==
    <<script, args, result, pc, feedback, n_read, location, metrics_input,
      metrics_output, editor, gdb, locals, reports, last>>

loader_vars ==
    <<pc, feedback, n_read, location, metrics_input, metrics_output, editor, gdb,
      locals, reports, last>>

\* The loader variables of a behaviour that runs no loader
LoaderIdle ==
    /\ pc = "idle"
    /\ feedback = 0
    /\ n_read = 0
    /\ location = NoneObj
    /\ metrics_input = NoneObj
    /\ metrics_output = NoneObj
    /\ editor = NoneObj
    /\ gdb = NoneObj
    /\ locals = NoneObj
    /\ reports = NoneObj
    /\ last = NoneObj

----------------------------------------------------------------------------
(* Source data                                                             *)

MaxFragments == 3
MaxMeasuringPoints == 1

\* Pieces of monitoring-type text; a monitoring type is up to MaxFragments of
\* them in a row
Fragments ==
    {"Rainfall, ", "Stage, ", "D-Stage", "d-", "STAGE", "GW Level", "Temp", " "}

RECURSIVE concat(_)
concat(seq) == IF Len(seq) = 0 THEN "" ELSE Head(seq) \o concat(Tail(seq))

FragmentTexts ==
    {concat(seq) : seq \in UNION {[1..k -> Fragments] : k \in 0..MaxFragments}}

AqStations(id) == [LocationIdentifier |-> id, FLUWID |-> None, Shape |-> "POINT"]

DistrictMonitoring(mt, rec, tb, sen) ==
    [ Monitoring_Type |-> mt, Station_Name |-> " Station ", Project_Number |-> "0012",
      Type_of_Recorder |-> rec[1], Recorder_Serial__ |-> rec[2],
      Type_of_Tipping_Bucket |-> tb[1], T_B__Serial__ |-> tb[2],
      Type_of_Sensor |-> sen[1], Sensor_Serial__ |-> sen[2] ]

MeasuringPointSource(name, flag, elevation) ==
    [ UniqueId |-> "0F8FAD5B-D9CB-469F-A165-70867728950E", Name |-> name,
      Description |-> None, DisplayOrder |-> "1",
      ReferencePointPeriods_0_Elevation |-> elevation,
      ReferencePointPeriods_0_IsMeasuredAgainstLocalAssumedDatum |-> flag,
      DecommissionedDate |-> None ]

\* Values of the columns the constructor run draws from
LocationMonitoringTypes ==
    {None, "Other", "Rainfall", "Stage", "GW Level, Temp", "Vel.Ind", "D-Stage"}
RecorderPairs ==
    {None, " ", "Sutron 9210"} \X {None, " ", "123"}
TippingBucketPairs ==
    {None, " ", "TB3"} \X {None, "77 "}
SensorListPairs ==
    {None, "A|B", "A"} \X {None, " ", "1|2"}
MeasuringPointSources ==
    { MeasuringPointSource("Staff Gauge A", "FALSE", "12.5"),
      MeasuringPointSource("NAVD88 0ft", "FALSE", "0"),
      MeasuringPointSource("Staff Gauge B", "FALSE", None),
      MeasuringPointSource("Staff Gauge C", None, "3.5") }
MeasuringPointLists ==
    UNION {[1..k -> MeasuringPointSources] : k \in 0..MaxMeasuringPoints}

----------------------------------------------------------------------------
(* Constructor runs: the has-X derivation, and Location(...)               *)

InitFlags ==
    /\ script = "flags"
    /\ \E mt \in FragmentTexts \cup {None} :
         args = [ data_aq_stations |-> AqStations("8495"),
                  district_matches |->
                    <<DistrictMonitoring(mt, <<None, None>>, <<None, None>>,
                                         <<None, None>>)>>,
                  data_measuring_points |-> <<>> ]
    /\ result = NoneObj
    /\ LoaderIdle

\* The "Location properties" transformers on a fresh object
DeriveFlags ==
    /\ script = "flags"
    /\ result = NoneObj
    /\ result' = transform_properties(
                    Location_initialize_attributes(
                        args.data_aq_stations, args.district_matches[1],
                        args.data_measuring_points))
    /\ UNCHANGED <<script, args, loader_vars>>

NextFlags == DeriveFlags

SpecFlags == InitFlags /\ [][NextFlags]_vars

InitLocation ==
    /\ script = "Location"
    /\ \E mt \in LocationMonitoringTypes, rec \in RecorderPairs,
          tb \in TippingBucketPairs, sen \in SensorListPairs,
          mps \in MeasuringPointLists :
         args = [ data_aq_stations |-> AqStations("8495"),
                  district_matches |-> <<DistrictMonitoring(mt, rec, tb, sen)>>,
                  data_measuring_points |-> mps ]
    /\ result = NoneObj
    /\ LoaderIdle

\* location = Location(...), as get_location calls it
Construct ==
    /\ script = "Location"
    /\ result = NoneObj
    /\ result' = Location(args.data_aq_stations, args.district_matches[1],
                          args.data_measuring_points)
    /\ UNCHANGED <<script, args, loader_vars>>

NextLocation == Construct

SpecLocation == InitLocation /\ [][NextLocation]_vars

\* Values of the type and serial number arguments of a device constructor
DeviceTypes ==
    { None, "", " ", "Sutron 9210", " Sutron 9210 ", "OTT Orpheus Mini",
      "Keller CTD\t", "OTT Ecolog 1000", "Foo", " TB3 " }
DeviceSerialNumbers == {None, " ", "123", " 123 ", "77 ", "\t9"}

InitDevices ==
    /\ script \in {"DataLogger", "Sensor"}
    /\ \E type_ \in DeviceTypes, serial_number \in DeviceSerialNumbers :
         args = [type_ |-> type_, serial_number |-> serial_number]
    /\ result = NoneObj
    /\ LoaderIdle

\* DataLogger(type_ = ..., serial_number = ...)
ConstructDataLogger ==
    /\ script = "DataLogger"
    /\ result = NoneObj
    /\ result' = DataLogger(args.type_, args.serial_number)
    /\ UNCHANGED <<script, args, loader_vars>>

\* Sensor(type_ = ..., serial_number = ...)
ConstructSensor ==
    /\ script = "Sensor"
    /\ result = NoneObj
    /\ result' = Sensor(args.type_, args.serial_number)
    /\ UNCHANGED <<script, args, loader_vars>>

NextDevices == ConstructDataLogger \/ ConstructSensor

SpecDevices == InitDevices /\ [][NextDevices]_vars

\* Constructor runs over pipe-delimited sensor lists of every shape
SensorTypeLists == {None, "A|B", "A", "A| ", " A | B ", "A|B|C", "|"}
SensorSerialNumberLists == {None, " ", "1|2", "1", " 1 | 2 ", "1|2|3", "|"}

InitSensorLists ==
    /\ script = "Location"
    /\ \E mt \in {"Temp", "Rainfall"},
          rec \in {<<None, None>>, <<"Sutron 9210", "123">>},
          tb \in {<<None, None>>, <<"TB3", "77">>},
          sen \in SensorTypeLists \X SensorSerialNumberLists :
         args = [ data_aq_stations |-> AqStations("8495"),
                  district_matches |-> <<DistrictMonitoring(mt, rec, tb, sen)>>,
                  data_measuring_points |-> <<>> ]
    /\ result = NoneObj
    /\ LoaderIdle

SpecSensorLists == InitSensorLists /\ [][NextLocation]_vars

\* Constructor runs over one Measuring Point record of every kind
MeasuringPointNames ==
    { None, "Ref point is top of casing", " ref point is", "Land Surface Datum",
      " NAVD88 0ft ", "NGVD29 0FT", "Slab", "Staff Gauge A" }
MeasuringPointFlags == {None, "", "TRUE", "true", "FALSE", "False", "maybe"}
MeasuringPointRecords ==
    { [MeasuringPointSource(name, flag, elevation) EXCEPT !.DecommissionedDate = date] :
        name \in MeasuringPointNames, flag \in MeasuringPointFlags,
        elevation \in {None, "12.5"}, date \in {None, "2020-01-01"} }

InitMeasuringPoints ==
    /\ script = "Location"
    /\ \E mt \in {"Temp", "Stage"}, source_data \in MeasuringPointRecords :
         args = [ data_aq_stations |-> AqStations("8495"),
                  district_matches |->
                    <<DistrictMonitoring(mt, <<None, None>>, <<None, None>>,
                                         <<None, None>>)>>,
                  data_measuring_points |-> <<source_data>> ]
    /\ result = NoneObj
    /\ LoaderIdle

SpecMeasuringPoints == InitMeasuringPoints /\ [][NextLocation]_vars

----------------------------------------------------------------------------
(* Claims about the constructors                                           *)

ArgMonitoringType == args.district_matches[1].Monitoring_Type
ArgDistrict == args.district_matches[1]
Constructed == script = "Location" /\ result # NoneObj
Succeeded == Constructed /\ result.exc = NoExc

\* An occurrence of text `sub` somewhere in `s`
Occurs(sub, s) ==
    \E i \in 1..Len(s) :
        /\ i + Len(sub) - 1 <= Len(s)
        /\ \A k \in 1..Len(sub) : SubSeq(s, i + k - 1, i + k - 1) = SubSeq(sub, k, k)

\* C8: HasStage is 'Yes' exactly when the monitoring type (None read as
\* empty, case ignored) holds 'stage' and does not hold 'd-stage', and 'No'
\* otherwise; 'Rainfall, Stage, D-Stage' gives HasRainfall 'Yes' and
\* HasStage 'No'.
C8_HasStage ==
    (script = "flags" /\ result # NoneObj) =>
        LET mt == lower(none2blank(ArgMonitoringType))
        IN  /\ result.HasStage \in {"Yes", "No"}
            /\ result.HasStage = "Yes" <=>
                 (Occurs("stage", mt) /\ ~Occurs("d-stage", mt))
            /\ Occurs("d-stage", mt) => result.HasStage = "No"
            /\ ArgMonitoringType = "Rainfall, Stage, D-Stage" =>
                 (result.HasRainfall = "Yes" /\ result.HasStage = "No")

C8_Witness ==
    /\ script = "flags"
    /\ result # NoneObj
    /\ ArgMonitoringType = "Rainfall, Stage, D-Stage"
    /\ result.HasRainfall = "Yes"
    /\ result.HasStage = "No"

\* C9: a Location whose has-X capability flags are all false is not
\* constructed: every successfully constructed Location has one of the eight
\* flags set to 'Yes'.
C9_SomeCapability ==
    Succeeded =>
        \/ result.HasRainfall = "Yes"
        \/ result.HasStage = "Yes"
        \/ result.HasGroundwater = "Yes"
        \/ result.HasConductivity = "Yes"
        \/ result.HasADVM = "Yes"
        \/ result.HasDischarge = "Yes"
        \/ result.HasTemperature = "Yes"
        \/ result.HasWaterQuality = "Yes"

ExactlyOneEmpty(a, b) == isempty(a) # isempty(b)
BothEmpty(a, b) == isempty(a) /\ isempty(b)

RecorderOneEmpty == ExactlyOneEmpty(ArgDistrict.Type_of_Recorder, ArgDistrict.Recorder_Serial__)
TippingBucketOneEmpty == ExactlyOneEmpty(ArgDistrict.Type_of_Tipping_Bucket, ArgDistrict.T_B__Serial__)
SensorListOneEmpty == ExactlyOneEmpty(ArgDistrict.Type_of_Sensor, ArgDistrict.Sensor_Serial__)

PairingErrors ==
    {ValueError(MsgDataLoggerPair), ValueError(MsgTippingBucketPair), ValueError(MsgSensorList)}

\* The object as the steps before transform__sensors leave it
BeforeSensors ==
    Then(Then(Then(Location_initialize_attributes(
                     args.data_aq_stations, ArgDistrict, args.data_measuring_points),
        transform_properties),
        transform__datalogger),
        transform__measuringpoints)

DeviceConstructed == script \in {"DataLogger", "Sensor"} /\ result # NoneObj
DevicePresent == ~isempty(args.type_) /\ ~isempty(args.serial_number)

\* The types of the low battery table of DataLogger
LowBatteryTypes ==
    { "OTT Orpheus Mini",
      "High Sierra 3208", "Sutron 9210", "Sutron CDMALink", "Sutron SatLink 3",
      "Sutron XLink 100", "Sutron XLink 500", "WaterLog H500XL", "WaterLog H522+",
      "WaterLog Storm",
      "In-Situ Level Troll 500", "In-Situ Level Troll 700",
      "In-Situ Rugged Baro Troll", "In-Situ Rugged Troll", "Keller CTD",
      "OTT Ecolog 1000" }

\* The device holds the trimmed arguments
DeviceTrimmed ==
    /\ result.exc = NoExc
    /\ result.Type = strip(args.type_)
    /\ result.SerialNumber = strip(args.serial_number)

\* C11 as stated: every DataLogger and every Sensor construction with both
\* the type and the serial number present succeeds, and the device holds the
\* trimmed values.
C11_DevicePresentSucceeds ==
    (DeviceConstructed /\ DevicePresent) => DeviceTrimmed

\* C11 amended: with both values present a Sensor is always constructed, and
\* a DataLogger is constructed exactly when its trimmed type is a type of the
\* low battery table; a constructed device holds the trimmed values, and a
\* DataLogger of any other type fails with a ValueError.
C11_DevicePresent ==
    (DeviceConstructed /\ DevicePresent) =>
        IF script = "Sensor" \/ strip(args.type_) \in LowBatteryTypes
        THEN DeviceTrimmed
        ELSE result.exc =
               ValueError("Data Logger: Unknown low battery level / units for type")

C11_Witness ==
    /\ script = "DataLogger"
    /\ result # NoneObj
    /\ args.type_ = " Sutron 9210 "
    /\ args.serial_number = " 123 "
    /\ result.exc = NoExc
    /\ result.Type = "Sutron 9210"
    /\ result.SerialNumber = "123"

\* The object as the "Location properties" transformers leave it, and as
\* transform__datalogger leaves it
AfterProperties ==
    transform_properties(
        Location_initialize_attributes(
            args.data_aq_stations, ArgDistrict, args.data_measuring_points))
AfterDataLogger == Then(AfterProperties, transform__datalogger)

GroundwaterOrStage ==
    AfterProperties.HasGroundwater = "Yes" \/ AfterProperties.HasStage = "Yes"

\* Every source record passed in is rejected by the business rules
NoneSurvives ==
    \A i \in 1..Len(args.data_measuring_points) :
        LET r == reject_messages(args.data_measuring_points[i])
        IN  r.exc = NoExc /\ Len(r.messages) > 0

BothPresent(a, b) == ~isempty(a) /\ ~isempty(b)
RecorderPresent == BothPresent(ArgDistrict.Type_of_Recorder, ArgDistrict.Recorder_Serial__)
TippingBucketPresent == BothPresent(ArgDistrict.Type_of_Tipping_Bucket, ArgDistrict.T_B__Serial__)
SensorListPresent == BothPresent(ArgDistrict.Type_of_Sensor, ArgDistrict.Sensor_Serial__)

AfterTransform ==
    Location_transform(
        Location_initialize_attributes(
            args.data_aq_stations, ArgDistrict, args.data_measuring_points))

BeforeSensorLists == sensors_tipping_bucket(BeforeSensors)

SensorTypeList == split(ArgDistrict.Type_of_Sensor, "|")
SensorSerialNumberList == split(ArgDistrict.Sensor_Serial__, "|")

\* Both lists are present and the step that reads them is reached
SensorListsRead ==
    Constructed /\ SensorListPresent /\ BeforeSensorLists.exc = NoExc

\* One Sensor per position of the lists, after the sensors already there
OneSensorPerPosition ==
    LET before == Len(BeforeSensorLists.sensors)
    IN  /\ AfterTransform.exc = NoExc
        /\ Len(AfterTransform.sensors) = before + Len(SensorTypeList)
        /\ \A i \in 1..Len(SensorTypeList) :
             /\ AfterTransform.sensors[before + i].Type = strip(SensorTypeList[i])
             /\ AfterTransform.sensors[before + i].SerialNumber
                  = strip(SensorSerialNumberList[i])

RejectedByRule(source_data) ==
    LET flag == source_data.ReferencePointPeriods_0_IsMeasuredAgainstLocalAssumedDatum
        name == source_data.Name
        flag_is(text) == flag # None /\ lower(flag) = text
    IN  \/ /\ flag_is("true")
           /\ name # None
           /\ startswith(lower(name), "ref point is")
        \/ /\ flag_is("false")
           /\ name # None
           /\ strip(lower(name)) \in
                {"land surface datum", "navd88 0ft", "ngvd29 0ft", "slab"}
        \/ ~flag_is("true") /\ ~flag_is("false")
        \/ source_data.DecommissionedDate # None

\* C17: of a Location given one Measuring Point source record, the record is
\* rejected exactly when the rule says so: it is then not attached, the
\* rejected count is 1 and the record does not abort construction (a stage
\* Location then fails for want of a Measuring Point); any other record with
\* elevation and identifier is attached.
C17_Rejection ==
    (Constructed /\ Len(args.data_measuring_points) = 1) =>
        LET source_data == args.data_measuring_points[1]
        IN  IF RejectedByRule(source_data)
            THEN IF GroundwaterOrStage
                 THEN result.exc = ValueError(MsgMeasuringPointRequired)
                 ELSE /\ result.exc = NoExc
                      /\ Len(result.measuring_points) = 0
                      /\ result._rejected_measuring_point_count = 1
            ELSE (~isempty(source_data.ReferencePointPeriods_0_Elevation)
                    /\ ~isempty(source_data.UniqueId)) =>
                      /\ result.exc = NoExc
                      /\ Len(result.measuring_points) = 1
                      /\ result._rejected_measuring_point_count = 0

\* The same statement for the records whose flag and name are not NULL
C17_RejectionOfTexts ==
    (/\ Constructed
     /\ Len(args.data_measuring_points) = 1
     /\ args.data_measuring_points[1].Name # None
     /\ args.data_measuring_points[1]
            .ReferencePointPeriods_0_IsMeasuredAgainstLocalAssumedDatum # None)
        => C17_Rejection

\* The monitoring-type text of the source row, as the Has* transformers read it
MonitoringText == lower(none2blank(ArgMonitoringType))

\* The text names stage monitoring that is not discontinued
StageText == contains("stage", MonitoringText) /\ ~contains("d-stage", MonitoringText)

\* The object as the "Related data" transformers leave it
AfterRelated == Then(AfterProperties, transform_related)

\* C24: the steps of Location.transform that decide on related data read
\* capability flags that are already derived from the monitoring type: a
\* missing recorder is an error exactly for ADVM or rainfall text, no
\* surviving Measuring Point exactly for groundwater or stage text, a missing
\* tipping bucket exactly for rainfall text; HasDataLogger, HasSensor and
\* HasMeasuringPoint are still unset when the related data has been built,
\* and in a constructed Location each is 'Yes' exactly when the Location has
\* a data logger, a sensor, a Measuring Point.
C24_TransformOrder ==
    Constructed =>
        /\ (AfterProperties.exc = NoExc
              /\ BothEmpty(ArgDistrict.Type_of_Recorder, ArgDistrict.Recorder_Serial__)) =>
             /\ AfterProperties.HasADVM = YesNo(contains("vel.ind", MonitoringText))
             /\ AfterProperties.HasRainfall = YesNo(contains("rainfall", MonitoringText))
             /\ (result.exc = ValueError(MsgDataLoggerRequired))
                    = (contains("vel.ind", MonitoringText)
                         \/ contains("rainfall", MonitoringText))
        /\ (AfterDataLogger.exc = NoExc /\ NoneSurvives) =>
             /\ AfterDataLogger.HasGroundwater = YesNo(contains("gw level", MonitoringText))
             /\ AfterDataLogger.HasStage = YesNo(StageText)
             /\ (result.exc = ValueError(MsgMeasuringPointRequired))
                    = (contains("gw level", MonitoringText) \/ StageText)
        /\ (BeforeSensors.exc = NoExc
              /\ BothEmpty(ArgDistrict.Type_of_Tipping_Bucket, ArgDistrict.T_B__Serial__)) =>
             (result.exc = ValueError(MsgTippingBucketRequired))
                    = contains("rainfall", MonitoringText)
        /\ AfterRelated.exc = NoExc =>
             /\ AfterRelated.HasDataLogger = None
             /\ AfterRelated.HasSensor = None
             /\ AfterRelated.HasMeasuringPoint = None
        /\ result.exc = NoExc =>
             /\ result.HasDataLogger = YesNo(result.data_logger # NoneObj)
             /\ result.HasSensor = YesNo(Len(result.sensors) > 0)
             /\ result.HasMeasuringPoint = YesNo(Len(result.measuring_points) > 0)
             /\ result.data_logger = AfterRelated.data_logger
             /\ result.sensors = AfterRelated.sensors
             /\ result.measuring_points = AfterRelated.measuring_points
             /\ (result.HasDataLogger = "Yes") = RecorderPresent
             /\ (result.HasSensor = "Yes") = (TippingBucketPresent \/ SensorListPresent)

\* A rainfall Location with recorder, tipping bucket and a Measuring Point
C24_Witness ==
    /\ Constructed
    /\ result.exc = NoExc
    /\ result.HasRainfall = "Yes"
    /\ result.HasDataLogger = "Yes"
    /\ result.HasSensor = "Yes"
    /\ result.HasMeasuringPoint = "Yes"
    /\ Len(result.measuring_points) = 1

\* A rainfall Location without recorder columns: the data logger step
\* finds HasRainfall set
C24_WitnessRequired ==
    /\ Constructed
    /\ ArgMonitoringType = "Rainfall"
    /\ BothEmpty(ArgDistrict.Type_of_Recorder, ArgDistrict.Recorder_Serial__)
    /\ result.exc = ValueError(MsgDataLoggerRequired)

\* C25: a DataLogger given an empty type and a serial number is refused with
\* the ValueError 'Data Logger: Missing type', and one given a type and an
\* empty serial number with 'Data Logger: Missing serial number'.
C25_PartialDataLogger ==
    (script = "DataLogger" /\ result # NoneObj) =>
        /\ (isempty(args.type_) /\ ~isempty(args.serial_number)) =>
                result.exc = ValueError("Data Logger: Missing type")
        /\ (~isempty(args.type_) /\ isempty(args.serial_number)) =>
                result.exc = ValueError("Data Logger: Missing serial number")

\* The half of C25 about the serial number, which holds
C25_MissingSerialNumber ==
    (script = "DataLogger" /\ result # NoneObj
        /\ ~isempty(args.type_) /\ isempty(args.serial_number)) =>
            result.exc = ValueError("Data Logger: Missing serial number")

\* C30: every constructed DataLogger has a low-battery threshold and its
\* units set, and a DataLogger whose type has no entry in the lookup table
\* is refused with a ValueError.
C30_LowBattery ==
    (script = "DataLogger" /\ result # NoneObj) =>
        /\ result.exc = NoExc =>
             /\ result.LowBattery # None
             /\ result.LowBatteryUnits # None
        /\ (DevicePresent /\ strip(args.type_) \notin LowBatteryTypes) =>
             (result.exc # NoExc /\ result.exc.exc = "ValueError")

\* The parts of C30 that hold: the threshold is always set, the units for
\* every type but 'OTT Orpheus Mini', and an unlisted type is refused
C30_LowBatteryThreshold ==
    (script = "DataLogger" /\ result # NoneObj) =>
        /\ result.exc = NoExc =>
             /\ result.LowBattery # None
             /\ result.Type # "OTT Orpheus Mini" => result.LowBatteryUnits # None
        /\ (DevicePresent /\ strip(args.type_) \notin LowBatteryTypes) =>
             result.exc = ValueError("Data Logger: Unknown low battery level / units for type")

----------------------------------------------------------------------------
(* load_data: the rows it reads                                            *)

MaxRows == 2
MaxFeedback == 2

LocationIdentifiers == <<"8495", "8505", "8544", "8600">>

GoodMeasuringPoint == MeasuringPointSource("Staff Gauge A", "FALSE", "12.5")
RejectedMeasuringPoint == MeasuringPointSource("NAVD88 0ft", "FALSE", "0")
NullFlagMeasuringPoint == MeasuringPointSource("Staff Gauge C", None, "3.5")

DriverMeasuringPointLists ==
    { <<>>, <<GoodMeasuringPoint>>, <<GoodMeasuringPoint, RejectedMeasuringPoint>>,
      <<NullFlagMeasuringPoint>> }

NoDevice == <<None, None>>

\* What the fetches find for one Aquarius row: the matching District
\* Monitoring rows and the Measuring Point rows
DriverRow(mt, rec, tb, sen, mps) ==
    [ district_matches |-> <<DistrictMonitoring(mt, rec, tb, sen)>>,
      data_measuring_points |-> mps ]

\* One row for each way an iteration can go: no District Monitoring match;
\* bare Locations with each list of Measuring Points; a Location with data
\* logger, sensor and Measuring Point; a rainfall Location with data logger
\* and tipping bucket, and one without; a sensor without data logger
DriverRows ==
    { [district_matches |-> <<>>, data_measuring_points |-> <<>>] }
    \cup
    { DriverRow("Temp", NoDevice, NoDevice, NoDevice, mps) :
        mps \in DriverMeasuringPointLists }
    \cup
    { DriverRow("Temp", <<"Sutron 9210", "123">>, NoDevice, <<"A", "1">>,
                <<GoodMeasuringPoint>>),
      DriverRow("Rainfall", <<"Sutron 9210", "123">>, <<"TB3", "77">>, NoDevice, <<>>),
      DriverRow("Rainfall", NoDevice, NoDevice, NoDevice, <<>>),
      DriverRow("Temp", NoDevice, NoDevice, <<"A", "1">>, <<>>) }

----------------------------------------------------------------------------
(* load_data                                                               *)

NoLocals ==
    [ location_globalid |-> NoneID, data_logger_globalid |-> NoneID,
      sensor_objectids |-> <<>>, measuring_point_objectids |-> <<>> ]

\* The ledger of one iteration: the counters and tables it started from, the
\* transactions it started and ended, the write_* calls it made and how it
\* ended
Iteration(outcome, mi, mo, committed) ==
    [ outcome |-> outcome, step |-> "", exc |-> NoExc, metrics_input |-> mi,
      metrics_output |-> mo, gdb |-> committed, sessions |-> 0, ends |-> 0,
      writes |-> <<>> ]

Init ==
    /\ script = "load_data"
    /\ args = NoneObj
    /\ result = NoneObj
    /\ pc = "ReadSourceRow"
    /\ feedback \in 0..MaxFeedback
    /\ n_read = 0
    /\ location = NoneObj
    /\ metrics_input = [Metrics EXCEPT !.data_logger_failed = NoneCount,
                                       !.sensor_failed = NoneCount]
    /\ metrics_output = Metrics
    /\ editor = Editor
    /\ gdb = EmptyTables
    /\ locals = NoLocals
    /\ reports = [periodic |-> <<>>, final |-> 0]
    /\ last = Iteration("none", metrics_input, metrics_output, gdb)

\* The feedback test without "Skip first pass"
report_due_first_pass(interval, total) ==
    /\ interval > 0
    /\ total % interval = 0

\* "Report feedback" at the top of the loop body
report_due(interval, total) ==
    /\ interval > 0
    /\ total # 0
    /\ total % interval = 0

\* for row_aq_stations in cursor_aq_stations: the cursor yields its next row,
\* or is exhausted and the final feedback is logged
ReadSourceRow ==
    /\ script = "load_data"
    /\ pc = "ReadSourceRow"
    /\ \E exhausted \in {n_read >= MaxRows, TRUE} :
         IF exhausted
         THEN /\ reports' = [reports EXCEPT !.final = @ + 1]
              /\ pc' = "Done"
              /\ UNCHANGED <<args, n_read, last>>
         ELSE /\ \E row \in DriverRows :
                   args' = [ data_aq_stations |-> AqStations(LocationIdentifiers[n_read + 1]),
                             district_matches |-> row.district_matches,
                             data_measuring_points |-> row.data_measuring_points ]
              /\ reports' =
                    IF report_due(feedback, location_total(metrics_input))
                    THEN [reports EXCEPT
                            !.periodic = Append(@, location_total(metrics_input))]
                    ELSE reports
              /\ n_read' = n_read + 1
              /\ last' = Iteration("running", metrics_input, metrics_output, gdb)
              /\ pc' = "BuildEntity"
    /\ UNCHANGED <<script, result, feedback, location, metrics_input, metrics_output,
                   editor, gdb, locals>>

\* A handler that also counts the Measuring Points of the row as failed
reject_location_and_points(m) ==
    [m EXCEPT !.location_failed = @ + 1, !.measuring_point_failed = @ + 1]

\* except ValueError: the Location is skipped
reject_location(m) == [m EXCEPT !.location_failed = @ + 1]

\* An update that leaves the rejected Measuring Points uncounted
update_input_metrics_accepted_only(m, loc) ==
    [m EXCEPT
        !.location_succeeded = @ + 1,
        !.data_logger_succeeded = @ + (IF loc.data_logger = NoneObj THEN 0 ELSE 1),
        !.measuring_point_succeeded = @ + Len(loc.measuring_points),
        !.sensor_succeeded = @ + Len(loc.sensors)]

\* "Update input metrics"
update_input_metrics(m, loc) ==
    [m EXCEPT
        !.location_succeeded = @ + 1,
        !.data_logger_succeeded = @ + (IF loc.data_logger = NoneObj THEN 0 ELSE 1),
        !.measuring_point_succeeded = @ + Len(loc.measuring_points),
        !.measuring_point_failed = @ + loc._rejected_measuring_point_count,
        !.sensor_succeeded = @ + Len(loc.sensors)]

\* location = get_location(...) in its try block. A ValueError skips the row;
\* any other exception leaves load_data and ends the run.
BuildEntity ==
    /\ script = "load_data"
    /\ pc = "BuildEntity"
    /\ LET loc == get_location(args.data_aq_stations, args.district_matches,
                               args.data_measuring_points)
       IN  IF loc.exc = NoExc
           THEN /\ location' = loc
                /\ metrics_input' = update_input_metrics(metrics_input, loc)
                /\ pc' = "BeginWriteTransaction"
                /\ last' = last
           ELSE IF loc.exc.exc = "ValueError"
           THEN /\ metrics_input' = reject_location(metrics_input)
                /\ pc' = "ReadSourceRow"
                /\ last' = [last EXCEPT !.outcome = "rejected", !.step = "BuildEntity",
                                        !.exc = loc.exc]
                /\ UNCHANGED location
           ELSE /\ pc' = "Aborted"
                /\ last' = [last EXCEPT !.outcome = "raised", !.step = "BuildEntity",
                                        !.exc = loc.exc]
                /\ UNCHANGED <<location, metrics_input>>
    /\ UNCHANGED <<script, args, result, feedback, n_read, metrics_output, editor, gdb,
                   locals, reports>>

\* editor.startEditing(with_undo = False, multiuser_mode = False)
BeginWriteTransaction ==
    /\ script = "load_data"
    /\ pc = "BeginWriteTransaction"
    /\ editor' = startEditing(editor)
    /\ locals' = NoLocals
    /\ last' = [last EXCEPT !.sessions = @ + 1]
    /\ pc' = "WriteLocation"
    /\ UNCHANGED <<script, args, result, feedback, n_read, location, metrics_input,
                   metrics_output, gdb, reports>>

\* A handler that ends the edit session saving the edits
rollback_transaction_saving(committed, ed) == stopEditing(committed, ed, TRUE)

\* "Rolling back transaction": editor.stopEditing(False)
rollback_transaction(committed, ed) == stopEditing(committed, ed, FALSE)

\* "Commit transaction": editor.stopEditing(True)
commit_transaction(committed, ed) == stopEditing(committed, ed, TRUE)

\* A handler that counts nothing
location_write_failed_uncounted(m) == m

\* except Exception of "Write Location"
location_write_failed(m) == [m EXCEPT !.location_failed = @ + 1]

\* except Exception of "Write Data Logger", "Write Sensors" and "Write
\* Measuring Points": the three handlers count alike
related_write_failed(m, loc) ==
    [m EXCEPT
        !.location_failed = @ + 1,
        !.data_logger_failed = @ + 1,
        !.sensor_failed = @ + Len(loc.sensors),
        !.measuring_point_failed = @ + Len(loc.measuring_points)]

\* Output metrics that count a Data Logger for every committed Location
update_output_metrics_always_logger(m, l) ==
    [m EXCEPT
        !.location_succeeded = @ + 1,
        !.data_logger_succeeded = @ + 1,
        !.sensor_succeeded = @ + Len(l.sensor_objectids),
        !.measuring_point_succeeded = @ + Len(l.measuring_point_objectids)]

\* "Update output metrics"
update_output_metrics(m, l) ==
    [m EXCEPT
        !.location_succeeded = @ + 1,
        !.data_logger_succeeded = @ + (IF l.data_logger_globalid = NoneID THEN 0 ELSE 1),
        !.sensor_succeeded = @ + Len(l.sensor_objectids),
        !.measuring_point_succeeded = @ + Len(l.measuring_point_objectids)]

\* A handler that leaves the edit session open
WriteFailed_session_left_open(step, w) ==
    /\ gdb' = gdb
    /\ editor' = w.editor
    /\ location' = w.location
    /\ last' = [last EXCEPT !.outcome = "write_failed", !.step = step, !.exc = w.exc,
                            !.writes = Append(@, step)]
    /\ pc' = "ReadSourceRow"
    /\ UNCHANGED locals

\* What every except Exception handler of the write steps does besides
\* counting: roll back, and `continue` with the next row
WriteFailed(step, w) ==
    /\ gdb' = rollback_transaction(gdb, w.editor).gdb
    /\ editor' = rollback_transaction(gdb, w.editor).editor
    /\ location' = w.location
    /\ last' = [last EXCEPT !.outcome = "write_failed", !.step = step, !.exc = w.exc,
                            !.ends = @ + 1, !.writes = Append(@, step)]
    /\ pc' = "ReadSourceRow"
    /\ UNCHANGED locals

WriteLocation ==
    /\ script = "load_data"
    /\ pc = "WriteLocation"
    /\ \E fault \in 0..2 :
         LET w == write_location(gdb, editor, location, fault)
         IN  IF w.exc # NoExc
             THEN /\ WriteFailed("Location", w)
                  /\ metrics_output' = location_write_failed(metrics_output)
             ELSE /\ editor' = w.editor
                  /\ location' = w.location
                  /\ locals' = [locals EXCEPT !.location_globalid = w.globalid]
                  /\ last' = [last EXCEPT !.writes = Append(@, "Location")]
                  /\ pc' = "WriteDataLogger"
                  /\ UNCHANGED <<gdb, metrics_output>>
    /\ UNCHANGED <<script, args, result, feedback, n_read, metrics_input, reports>>

WriteDataLogger ==
    /\ script = "load_data"
    /\ pc = "WriteDataLogger"
    /\ IF location.data_logger = NoneObj
       THEN /\ pc' = "WriteSensors"
            /\ UNCHANGED <<location, metrics_output, editor, gdb, locals, last>>
       ELSE \E fault \in 0..2 :
              LET w == write_data_logger(gdb, editor, location,
                                         locals.location_globalid, fault)
              IN  IF w.exc # NoExc
                  THEN /\ WriteFailed("DataLogger", w)
                       /\ metrics_output' = related_write_failed(metrics_output, location)
                  ELSE /\ editor' = w.editor
                       /\ location' = w.location
                       /\ locals' = [locals EXCEPT !.data_logger_globalid = w.globalid]
                       /\ last' = [last EXCEPT !.writes = Append(@, "DataLogger")]
                       /\ pc' = "WriteSensors"
                       /\ UNCHANGED <<gdb, metrics_output>>
    /\ UNCHANGED <<script, args, result, feedback, n_read, metrics_input, reports>>

WriteSensors ==
    /\ script = "load_data"
    /\ pc = "WriteSensors"
    /\ IF Len(location.sensors) = 0
       THEN /\ pc' = "WriteMeasuringPoints"
            /\ UNCHANGED <<location, metrics_output, editor, gdb, locals, last>>
       ELSE \E fault \in 0..Len(location.sensors) :
              LET w == write_sensors(gdb, editor, location,
                                     locals.data_logger_globalid, fault)
              IN  IF w.exc # NoExc
                  THEN /\ WriteFailed("Sensors", w)
                       /\ metrics_output' = related_write_failed(metrics_output, location)
                  ELSE /\ editor' = w.editor
                       /\ location' = w.location
                       /\ locals' = [locals EXCEPT !.sensor_objectids = w.objectids]
                       /\ last' = [last EXCEPT !.writes = Append(@, "Sensors")]
                       /\ pc' = "WriteMeasuringPoints"
                       /\ UNCHANGED <<gdb, metrics_output>>
    /\ UNCHANGED <<script, args, result, feedback, n_read, metrics_input, reports>>

WriteMeasuringPoints ==
    /\ script = "load_data"
    /\ pc = "WriteMeasuringPoints"
    /\ IF Len(location.measuring_points) = 0
       THEN /\ pc' = "Commit"
            /\ UNCHANGED <<location, metrics_output, editor, gdb, locals, last>>
       ELSE \E fault \in 0..Len(location.measuring_points) :
              LET w == write_measuring_point(gdb, editor, location,
                                             locals.location_globalid, fault)
              IN  IF w.exc # NoExc
                  THEN /\ WriteFailed("MeasuringPoints", w)
                       /\ metrics_output' = related_write_failed(metrics_output, location)
                  ELSE /\ editor' = w.editor
                       /\ location' = w.location
                       /\ locals' = [locals EXCEPT !.measuring_point_objectids = w.objectids]
                       /\ last' = [last EXCEPT !.writes = Append(@, "MeasuringPoints")]
                       /\ pc' = "Commit"
                       /\ UNCHANGED <<gdb, metrics_output>>
    /\ UNCHANGED <<script, args, result, feedback, n_read, metrics_input, reports>>

Commit ==
    /\ script = "load_data"
    /\ pc = "Commit"
    /\ gdb' = commit_transaction(gdb, editor).gdb
    /\ editor' = commit_transaction(gdb, editor).editor
    /\ metrics_output' = update_output_metrics(metrics_output, locals)
    /\ last' = [last EXCEPT !.outcome = "committed", !.step = "Commit", !.ends = @ + 1]
    /\ pc' = "ReadSourceRow"
    /\ UNCHANGED <<script, args, result, feedback, n_read, location, metrics_input,
                   locals, reports>>

Next ==
    \/ ReadSourceRow
    \/ BuildEntity
    \/ BeginWriteTransaction
    \/ WriteLocation
    \/ WriteDataLogger
    \/ WriteSensors
    \/ WriteMeasuringPoints
    \/ Commit

Spec == Init /\ [][Next]_vars

----------------------------------------------------------------------------
(* load_hydro_photos.py: Photo, Attachment and the photo Metrics           *)

LowerToUpper ==
    [ a |-> "A", b |-> "B", c |-> "C", d |-> "D", e |-> "E", f |-> "F", g |-> "G",
      h |-> "H", i |-> "I", j |-> "J", k |-> "K", l |-> "L", m |-> "M", n |-> "N",
      o |-> "O", p |-> "P", q |-> "Q", r |-> "R", s |-> "S", t |-> "T", u |-> "U",
      v |-> "V", w |-> "W", x |-> "X", y |-> "Y", z |-> "Z" ]

UpperChar(c) == IF c \in DOMAIN LowerToUpper THEN LowerToUpper[c] ELSE c

RECURSIVE upper(_)
upper(s) ==
    IF Len(s) = 0 THEN ""
    ELSE UpperChar(SubSeq(s, 1, 1)) \o upper(SubSeq(s, 2, Len(s)))

endswith(s, suffix) ==
    /\ Len(suffix) <= Len(s)
    /\ SubSeq(s, Len(s) - Len(suffix) + 1, Len(s)) = suffix

TypeError(m) == [exc |-> "TypeError", msg |-> m]

\* str(uuid.UUID(hex)).upper(): the 8-4-4-4-12 form in upper case
uuid_str_upper(s) ==
    LET hex == uuid_hex(s)
    IN  upper(SubSeq(hex, 1, 8) \o "-" \o SubSeq(hex, 9, 12) \o "-"
              \o SubSeq(hex, 13, 16) \o "-" \o SubSeq(hex, 17, 20) \o "-"
              \o SubSeq(hex, 21, 32))

\* re.findall(r'MP#([0-9a-f]{32})', s): leftmost matches that do not overlap
RECURSIVE findall_mp(_)
findall_mp(s) ==
    IF Len(s) < 35 THEN <<>>
    ELSE IF /\ SubSeq(s, 1, 3) = "MP#"
            /\ \A i \in 4..35 : SubSeq(s, i, i) \in HexDigits
    THEN <<SubSeq(s, 4, 35)>> \o findall_mp(SubSeq(s, 36, Len(s)))
    ELSE findall_mp(SubSeq(s, 2, Len(s)))

\* A field name that matches 'Tags_[0-9]+_Key'
is_tag_column(name) ==
    /\ startswith(name, "Tags_")
    /\ endswith(name, "_Key")
    /\ IsDigits(SubSeq(name, 6, Len(name) - 4))

SelectTagColumns(fields) == SelectSeq(fields, is_tag_column)

Photo_initialize_attributes(index_record, photo_dir) ==
    [ index_record |-> index_record, photo_dir |-> photo_dir,
      data |-> None, file_name |-> None, is_location |-> None, is_mp |-> None,
      location |-> None, mp_uuids |-> None, photo_uuid |-> None, tags |-> None,
      exc |-> NoExc ]

Photo_transform_file_name(self) ==
    [self EXCEPT !.file_name = self.index_record.FileName]

Photo_transform_location(self) ==
    [self EXCEPT !.location = zfill6(str_int(self.index_record.Identifier))]

Photo_transform_photo_uuid(self) ==
    IF self.index_record.UniqueId = None
    THEN [self EXCEPT !.exc = TypeError("one of the hex, bytes, bytes_le, fields, or int arguments must be given")]
    ELSE IF ~uuid_wellformed(self.index_record.UniqueId)
    THEN [self EXCEPT !.exc = ValueError("badly formed hexadecimal UUID string")]
    ELSE [self EXCEPT !.photo_uuid = uuid_str_upper(self.index_record.UniqueId)]

Photo_transform_tags(self) ==
    LET tag_columns == SelectTagColumns(self.index_record.fields)
    IN  [self EXCEPT !.tags = [i \in 1..Len(tag_columns) |->
                                    self.index_record[tag_columns[i]]]]

\* A flag that every photo gets, whatever its tags
Photo_transform_is_location_untagged(self) ==
    [self EXCEPT !.is_location = TRUE]

Photo_transform_is_location(self) ==
    [self EXCEPT !.is_location = "Site Photo" \in Range(self.tags)]

Photo_transform_is_mp(self) ==
    [self EXCEPT !.is_mp = "MP" \in Range(self.tags)]

Photo_transform_mp_uuids(self) ==
    LET match == findall_mp(none2blank(self.index_record.Comment))
    IN  IF self.is_mp # TRUE
        THEN [self EXCEPT !.mp_uuids = <<>>]
        ELSE IF Len(match) = 0
        THEN [self EXCEPT !.mp_uuids = <<>>,
                          !.exc = ValueError("Measuring Point photo missing Aquarius ID of related MP")]
        ELSE [self EXCEPT !.mp_uuids = [i \in 1..Len(match) |-> uuid_str_upper(match[i])]]

Photo_transform(self) ==
    Then(Then(Then(Then(Then(Then(Photo_transform_file_name(self),
        Photo_transform_location), Photo_transform_photo_uuid), Photo_transform_tags),
        Photo_transform_is_location), Photo_transform_is_mp), Photo_transform_mp_uuids)

Photo(index_record, photo_dir) ==
    Photo_transform(Photo_initialize_attributes(index_record, photo_dir))

\* mimetypes.guess_type(file_name)[0], by the extension of the name
guess_type(file_name) ==
    IF endswith(lower(file_name), ".jpg") THEN "image/jpeg"
    ELSE IF endswith(lower(file_name), ".png") THEN "image/png"
    ELSE None

Attachment_initialize_attributes(kind, photo_gdb, photo) ==
    [ kind |-> kind, gdb |-> photo_gdb, photo |-> photo,
      content_type |-> None, data_size |-> None, globalid |-> None,
      rel_globalids |-> None, exc |-> NoExc ]

\* The subclass properties
keywords(self) ==
    IF self.kind = "Location" THEN "Location_image" ELSE "MeasuringPoint_image"

table_name(self) ==
    IF self.kind = "Location" THEN "location" ELSE "measuringpoint"

table_name_attachment(self) ==
    IF self.kind = "Location" THEN "location__attach" ELSE "measuringpoint__attach"

\* where_clauses: each is the key a row of the table must have. Location
\* rows are filtered on nwfid, Measuring Point rows on UPPER(aquariusid).
where_clauses(self) ==
    IF self.kind = "Location" THEN <<self.photo.location>> ELSE self.photo.mp_uuids

\* The GlobalIDs of the rows a where clause selects
fetch_globalids(self, where_clause) ==
    { row.globalid : row \in
        { r \in self.gdb[table_name(self)] :
            IF self.kind = "Location" THEN r.key = where_clause
            ELSE upper(r.key) = where_clause } }

Attachment_transform_content_type(self) ==
    IF guess_type(self.photo.file_name) = None
    THEN [self EXCEPT !.exc = ValueError("content_type: Unknown content type for photo")]
    ELSE [self EXCEPT !.content_type = guess_type(self.photo.file_name)]

Attachment_transform_data_size(self) ==
    [self EXCEPT !.data_size = Len(self.photo.data)]

\* The loop of transform_rel_globalids from where clause i on; row[0][1:-1]
\* trims the curly braces
RECURSIVE rel_globalids_loop(_, _)
rel_globalids_loop(self, i) ==
    IF i > Len(where_clauses(self)) THEN self
    ELSE LET found == fetch_globalids(self, where_clauses(self)[i])
         IN  IF Cardinality(found) > 1
             THEN [self EXCEPT !.exc = ValueError("rel_globalid: Found multiple rows")]
             ELSE IF Cardinality(found) = 0
             THEN [self EXCEPT !.exc = ValueError("rel_globalid: Did not find row")]
             ELSE LET globalid == CHOOSE g \in found : TRUE
                  IN  rel_globalids_loop(
                        [self EXCEPT !.rel_globalids =
                            Append(@, SubSeq(globalid, 2, Len(globalid) - 1))],
                        i + 1)

\* A resolution that takes any matching row and reports no error
Attachment_transform_rel_globalids_any_row(self) ==
    [self EXCEPT !.rel_globalids =
        [i \in 1..Len(where_clauses(self)) |->
            LET found == fetch_globalids(self, where_clauses(self)[i])
            IN  IF found = {} THEN ""
                ELSE LET globalid == CHOOSE g \in found : TRUE
                     IN  SubSeq(globalid, 2, Len(globalid) - 1)]]

Attachment_transform_rel_globalids(self) ==
    rel_globalids_loop([self EXCEPT !.rel_globalids = <<>>], 1)

Attachment_transform(self) ==
    Then(Then(Attachment_transform_content_type(self), Attachment_transform_data_size),
         Attachment_transform_rel_globalids)

Attachment(kind, photo_gdb, photo) ==
    Attachment_transform(Attachment_initialize_attributes(kind, photo_gdb, photo))

\* A check that never finds an attachment
attachment_exists_never(self, rows, rel_globalid) == FALSE


\* check_target: an attachment of this file name on this row already exists
attachment_exists(self, rows, rel_globalid) ==
    \E row \in rows :
        /\ row.rel_globalid = rel_globalid
        /\ row.att_name = self.photo.file_name

\* Attachment.load from related row i on: acc holds the rows of the
\* attachment table and the errors so far. The geodatabase numbers each
\* inserted row (attachmentid), so two inserts are two rows.
RECURSIVE load_loop(_, _, _)
load_loop(self, acc, i) ==
    IF i > Len(self.rel_globalids) THEN acc
    ELSE IF attachment_exists(self, acc.rows, self.rel_globalids[i])
    THEN load_loop(self,
                   [acc EXCEPT !.errors = Append(@, ValueError("Attachment already exists"))],
                   i + 1)
    ELSE load_loop(self,
                   [acc EXCEPT !.rows = @ \cup
                        {[ attachmentid |-> Cardinality(acc.rows) + 1,
                           rel_globalid |-> self.rel_globalids[i],
                           content_type |-> self.content_type,
                           att_name |-> self.photo.file_name,
                           data_size |-> self.data_size,
                           data |-> self.photo.data,
                           keywords |-> keywords(self) ]}],
                   i + 1)

\* A load that inserts nothing when one of its targets is refused
load_all_or_nothing(self, photo_gdb) ==
    LET loaded == load_loop(self, [rows |-> photo_gdb[table_name_attachment(self)],
                                   errors |-> <<>>], 1)
    IN  IF Len(loaded.errors) > 0
        THEN [loaded EXCEPT !.rows = photo_gdb[table_name_attachment(self)]]
        ELSE loaded

load(self, photo_gdb) ==
    load_loop(self, [rows |-> photo_gdb[table_name_attachment(self)], errors |-> <<>>], 1)

\* MetricsInput.__init__ and MetricsOutput.__init__
MetricsInput ==
    [ file_failed |-> 0, file_succeeded |-> 0, index_failed |-> 0,
      index_succeeded |-> 0, metadata_failed |-> 0, metadata_succeeded |-> 0 ]

MetricsOutput ==
    [ location_failed |-> 0, location_succeeded |-> 0, mp_failed |-> 0, mp_succeeded |-> 0 ]

photos_get_total(succeeded, failed) ==
    IF succeeded = NoneCount /\ failed = NoneCount
    THEN NoneCount
    ELSE or0(succeeded) + or0(failed)

index_total(m) == photos_get_total(m.index_succeeded, m.index_failed)

----------------------------------------------------------------------------
(* load_photos: the index rows it reads and the geodatabase it loads       *)

Uuid1 == "0f8fad5bd9cb469fa16570867728950e"
Uuid2 == "7c9e6679742540de944be07fc1f90ae7"
Uuid3 == "123e4567e89b12d3a456426614174000"

IndexFields == <<"FileName", "Identifier", "UniqueId", "Comment", "Tags_0_Key", "Tags_1_Key">>

IndexRecord(file_name, identifier, unique_id, comment, tags) ==
    [ fields |-> IndexFields, FileName |-> file_name, Identifier |-> identifier,
      UniqueId |-> unique_id, Comment |-> comment,
      Tags_0_Key |-> tags[1], Tags_1_Key |-> tags[2] ]

PhotoUuid == "0F8FAD5B-D9CB-469F-A165-70867728950E"

\* A Location and Measuring Point photo of Location 8495, and the same record
\* with one column changed: the file type, the Location, the photo id, the
\* comment, the tags; and a Measuring Point photo of two Measuring Points
IndexRows ==
    { IndexRecord("a.jpg", 8495, PhotoUuid, "MP#" \o Uuid1, <<"Site Photo", "MP">>),
      IndexRecord("b.txt", 8495, PhotoUuid, "MP#" \o Uuid1, <<"Site Photo", "MP">>),
      IndexRecord("a.jpg", 7, PhotoUuid, "MP#" \o Uuid1, <<"Site Photo", "MP">>),
      IndexRecord("a.jpg", 8495, "bad", "MP#" \o Uuid1, <<"Site Photo", "MP">>),
      IndexRecord("a.jpg", 8495, None, "MP#" \o Uuid1, <<"Site Photo", "MP">>),
      IndexRecord("a.jpg", 8495, PhotoUuid, None, <<"Site Photo", "MP">>),
      IndexRecord("a.jpg", 8495, PhotoUuid, "MP#" \o Uuid1 \o " MP#" \o Uuid2,
                  <<"Site Photo", "MP">>),
      IndexRecord("a.jpg", 8495, PhotoUuid, "MP#" \o Uuid1, <<None, None>>),
      IndexRecord("a.jpg", 8495, PhotoUuid, "MP#" \o Uuid1, <<"Site Photo", None>>),
      IndexRecord("a.jpg", 8495, PhotoUuid, "MP#" \o Uuid1, <<"MP", None>>),
      IndexRecord("a.jpg", 8495, PhotoUuid, "MP#" \o Uuid1 \o " MP#" \o Uuid3,
                  <<"MP", None>>) }

\* One Location; one Measuring Point with the first Aquarius ID, two with
\* the second and one with the third
PhotoGdb ==
    [ location |-> {[key |-> "008495", globalid |-> "{L1}"]},
      measuringpoint |->
        { [key |-> "0f8fad5b-d9cb-469f-a165-70867728950e", globalid |-> "{M1}"],
          [key |-> "7c9e6679-7425-40de-944b-e07fc1f90ae7", globalid |-> "{M2}"],
          [key |-> "7C9E6679-7425-40DE-944B-E07FC1F90AE7", globalid |-> "{M3}"],
          [key |-> "123e4567-e89b-12d3-a456-426614174000", globalid |-> "{M4}"] },
      location__attach |-> {},
      measuringpoint__attach |-> {} ]

InitPhotos ==
    /\ script = "load_photos"
    /\ args = NoneObj
    /\ result = NoneObj
    /\ pc = "ReadIndexRow"
    /\ feedback \in 0..MaxFeedback
    /\ n_read = 0
    /\ location = NoneObj
    /\ metrics_input = [MetricsInput EXCEPT !.index_failed = NoneCount]
    /\ metrics_output = MetricsOutput
    /\ editor = NoneObj
    /\ gdb = PhotoGdb
    /\ locals = [photo |-> NoneObj]
    /\ reports = [periodic |-> <<>>, final |-> 0]
    /\ last = Iteration("none", metrics_input, metrics_output, gdb)

\* "Report feedback" at the top of the loop body
photos_report_due(interval, total) ==
    /\ interval > 0
    /\ total # 0
    /\ total % interval = 0

\* for row_index in cursor_index: the feedback check, the IndexRecord and the
\* index counter; or the cursor is exhausted and the final feedback is logged
ReadIndexRow ==
    /\ script = "load_photos"
    /\ pc = "ReadIndexRow"
    /\ \E exhausted \in {n_read >= MaxRows, TRUE} :
         IF exhausted
         THEN /\ reports' = [reports EXCEPT !.final = @ + 1]
              /\ pc' = "Done"
              /\ UNCHANGED <<args, n_read, last, metrics_input>>
         ELSE /\ \E index_record \in IndexRows : args' = index_record
              /\ reports' =
                    IF photos_report_due(feedback, index_total(metrics_input))
                    THEN [reports EXCEPT
                            !.periodic = Append(@, index_total(metrics_input))]
                    ELSE reports
              /\ n_read' = n_read + 1
              /\ metrics_input' = [metrics_input EXCEPT !.index_succeeded = @ + 1]
              /\ last' = Iteration("running", metrics_input, metrics_output, gdb)
              /\ pc' = "GatherMetadata"
    /\ UNCHANGED <<script, result, feedback, location, metrics_output, editor, gdb, locals>>

\* How an iteration of load_photos ends with `continue`
PhotoSkipped(step, exc) ==
    /\ last' = [last EXCEPT !.outcome = "skipped", !.step = step, !.exc = exc]
    /\ pc' = "ReadIndexRow"

\* How an exception no handler catches ends the run
PhotoRaised(step, exc) ==
    /\ last' = [last EXCEPT !.outcome = "raised", !.step = step, !.exc = exc]
    /\ pc' = "Aborted"

\* "Gather photo metadata" and "Assess metadata properties"
GatherMetadata ==
    /\ script = "load_photos"
    /\ pc = "GatherMetadata"
    /\ LET photo == Photo(args, "photo_dir")
       IN  IF photo.exc # NoExc /\ photo.exc.exc = "ValueError"
           THEN /\ metrics_input' = [metrics_input EXCEPT !.metadata_failed = @ + 1]
                /\ PhotoSkipped("Photo", photo.exc)
                /\ UNCHANGED locals
           ELSE IF photo.exc # NoExc
           THEN /\ PhotoRaised("Photo", photo.exc)
                /\ UNCHANGED <<metrics_input, locals>>
           ELSE IF ~(photo.is_location = TRUE \/ photo.is_mp = TRUE)
           THEN /\ metrics_input' = [metrics_input EXCEPT !.metadata_failed = @ + 1]
                /\ locals' = [locals EXCEPT !.photo = photo]
                /\ PhotoSkipped("tags", NoExc)
           ELSE /\ metrics_input' = [metrics_input EXCEPT !.metadata_succeeded = @ + 1]
                /\ locals' = [locals EXCEPT !.photo = photo]
                /\ last' = last
                /\ pc' = "FetchData"
    /\ UNCHANGED <<script, args, result, feedback, n_read, location, metrics_output,
                   editor, gdb, reports>>

\* "Fetch source data from photo file": photo.get_data() reads the file, or
\* raises when it cannot
FetchData ==
    /\ script = "load_photos"
    /\ pc = "FetchData"
    /\ \E readable \in BOOLEAN :
         IF readable
         THEN /\ locals' = [locals EXCEPT !.photo.data = "JFIF"]
              /\ metrics_input' = [metrics_input EXCEPT !.file_succeeded = @ + 1]
              /\ last' = last
              /\ pc' = "LocationAttachment"
         ELSE /\ metrics_input' = [metrics_input EXCEPT !.file_failed = @ + 1]
              /\ PhotoSkipped("get_data", [exc |-> "OSError", msg |-> "cannot open file"])
              /\ UNCHANGED locals
    /\ UNCHANGED <<script, args, result, feedback, n_read, location, metrics_output,
                   editor, gdb, reports>>

\* "Location attachment"
LoadLocationAttachment ==
    /\ script = "load_photos"
    /\ pc = "LocationAttachment"
    /\ IF locals.photo.is_location # TRUE
       THEN /\ pc' = "MPAttachment"
            /\ UNCHANGED <<metrics_output, gdb, last>>
       ELSE LET attachment == Attachment("Location", gdb, locals.photo)
                loaded == load(attachment, gdb)
            IN  IF attachment.exc # NoExc
                THEN /\ metrics_output' = [metrics_output EXCEPT !.location_failed = @ + 1]
                     /\ PhotoSkipped("LocationAttachment", attachment.exc)
                     /\ UNCHANGED gdb
                ELSE IF Len(loaded.errors) > 0
                THEN /\ metrics_output' =
                            [metrics_output EXCEPT !.location_failed = @ + Len(loaded.errors)]
                     /\ gdb' = [gdb EXCEPT !.location__attach = loaded.rows]
                     /\ PhotoSkipped("LocationAttachment.load", loaded.errors[1])
                ELSE /\ metrics_output' = [metrics_output EXCEPT !.location_succeeded = @ + 1]
                     /\ gdb' = [gdb EXCEPT !.location__attach = loaded.rows]
                     /\ last' = last
                     /\ pc' = "MPAttachment"
    /\ UNCHANGED <<script, args, result, feedback, n_read, location, metrics_input,
                   editor, locals, reports>>

\* "Measuring Point attachment"; the end of the loop body follows it
LoadMPAttachment ==
    /\ script = "load_photos"
    /\ pc = "MPAttachment"
    /\ IF locals.photo.is_mp # TRUE
       THEN /\ last' = [last EXCEPT !.outcome = "loaded", !.step = "MPAttachment"]
            /\ pc' = "ReadIndexRow"
            /\ UNCHANGED <<metrics_output, gdb>>
       ELSE LET attachment == Attachment("MeasuringPoint", gdb, locals.photo)
                loaded == load(attachment, gdb)
            IN  IF attachment.exc # NoExc
                THEN /\ metrics_output' = [metrics_output EXCEPT !.mp_failed = @ + 1]
                     /\ PhotoSkipped("MPAttachment", attachment.exc)
                     /\ UNCHANGED gdb
                ELSE IF Len(loaded.errors) > 0
                THEN /\ metrics_output' =
                            [metrics_output EXCEPT !.mp_failed = @ + Len(loaded.errors)]
                     /\ gdb' = [gdb EXCEPT !.measuringpoint__attach = loaded.rows]
                     /\ PhotoSkipped("MPAttachment.load", loaded.errors[1])
                ELSE /\ metrics_output' = [metrics_output EXCEPT !.mp_succeeded = @ + 1]
                     /\ gdb' = [gdb EXCEPT !.measuringpoint__attach = loaded.rows]
                     /\ last' = [last EXCEPT !.outcome = "loaded", !.step = "MPAttachment"]
                     /\ pc' = "ReadIndexRow"
    /\ UNCHANGED <<script, args, result, feedback, n_read, location, metrics_input,
                   editor, locals, reports>>

NextPhotos ==
    \/ ReadIndexRow
    \/ GatherMetadata
    \/ FetchData
    \/ LoadLocationAttachment
    \/ LoadMPAttachment

SpecPhotos == InitPhotos /\ [][NextPhotos]_vars

\* Either loader
InitLoaders == Init \/ InitPhotos

NextLoaders == Next \/ NextPhotos

SpecLoaders == InitLoaders /\ [][NextLoaders]_vars

----------------------------------------------------------------------------
(* update_database_hydro.5.py: the discharge migration                     *)

\* The GDB_TO_DATE of a row of an archive-enabled table that is current
CurrentRow == "9999-12-31 23:59:59"

DischargeFields ==
    {"DischargeRecordStart", "DischargeRecordEnd", "DischargeVolume", "DischargeUncertainty"}

\* A row of LocationVisit, and a row of LocationVisit__ATTACH
Visit(globalid, record_start, record_end, volume, uncertainty) ==
    [ GlobalID |-> globalid, DischargeRecordStart |-> record_start,
      DischargeRecordEnd |-> record_end, DischargeVolume |-> volume,
      DischargeUncertainty |-> uncertainty ]

VisitAttachment(globalid, rel_globalid, keyword, gdb_to_date) ==
    [ GLOBALID |-> globalid, REL_GLOBALID |-> rel_globalid,
      CONTENT_TYPE |-> "text/csv", ATT_NAME |-> globalid \o ".csv", DATA_SIZE |-> "4",
      DATA |-> "data", KEYWORDS |-> keyword, EXIFINFO |-> None,
      GDB_TO_DATE |-> gdb_to_date ]

\* The stores the migration is run on: two visits, each with or without
\* discharge values, and any of five attachments: two discharge files and a
\* photo of the first visit, a discharge file of the second visit, and the
\* archived state of a discharge file deleted earlier
VisitTables ==
    { {v1, v2} :
        v1 \in { Visit("V1", None, None, None, None),
                 Visit("V1", None, None, "1.5", None),
                 Visit("V1", "2021-03-01", "2021-03-02", "1.5", "0.1") },
        v2 \in { Visit("V2", None, None, None, None),
                 Visit("V2", "2021-04-01", "2021-04-02", "7", "0.2") } }

VisitAttachmentTables ==
    SUBSET { VisitAttachment("A1", "V1", "DischargeDataFiles", CurrentRow),
             VisitAttachment("A2", "V1", "Photos", CurrentRow),
             VisitAttachment("A3", "V2", "DischargeDataFiles", CurrentRow),
             VisitAttachment("A4", "V1", "DischargeDataFiles", "2020-01-01 00:00:00"),
             VisitAttachment("A5", "V1", "DischargeDataFiles", CurrentRow) }

\* The rows of an archive-enabled table that its _EVW view shows
EVW(rows) == {row \in rows : row.GDB_TO_DATE = CurrentRow}

\* where_clause of cursor_source: a discharge value, or a current
\* attachment with the keyword 'DischargeDataFiles'
has_discharge(tables, visit) ==
    \/ visit.DischargeRecordStart # None
    \/ visit.DischargeRecordEnd # None
    \/ visit.DischargeVolume # None
    \/ visit.DischargeUncertainty # None
    \/ \E attachment \in EVW(tables.LocationVisit__ATTACH) :
            /\ attachment.REL_GLOBALID = visit.GlobalID
            /\ attachment.KEYWORDS = "DischargeDataFiles"

\* where_clause of cursor_source_attach
is_discharge_attachment(attachment, visit_globalid) ==
    /\ attachment.GDB_TO_DATE = CurrentRow
    /\ attachment.REL_GLOBALID = visit_globalid
    /\ attachment.KEYWORDS = "DischargeDataFiles"

\* row_target, as cursor_target.insertRow stores it: the table numbers the
\* row and gives it a GlobalID
discharge_row(tables, row_source) ==
    LET objectid == Cardinality(tables.DischargeMeasurement) + 1
    IN  [ OBJECTID |-> objectid, GlobalID |-> "D" \o str_int(objectid),
          LocationVisitGlobalID |-> row_source.GlobalID,
          RecordStart |-> row_source.DischargeRecordStart,
          RecordEnd |-> row_source.DischargeRecordEnd,
          Volume |-> row_source.DischargeVolume,
          Uncertainty |-> row_source.DischargeUncertainty,
          IsReviewed |-> "No" ]

\* row_target_attachment, as cursor_target_attach.insertRow stores it
discharge_attachment_row(tables, row_source_attach, target_globalid) ==
    [ ATTACHMENTID |-> Cardinality(tables.DischargeMeasurement__ATTACH) + 1,
      CONTENT_TYPE |-> row_source_attach.CONTENT_TYPE,
      ATT_NAME |-> row_source_attach.ATT_NAME,
      DATA_SIZE |-> row_source_attach.DATA_SIZE,
      DATA |-> row_source_attach.DATA,
      KEYWORDS |-> row_source_attach.KEYWORDS,
      EXIFINFO |-> row_source_attach.EXIFINFO,
      REL_GLOBALID |-> target_globalid ]

\* The tables of a store, without its schema
TablesOf(store) ==
    [ LocationVisit |-> store.LocationVisit,
      LocationVisit__ATTACH |-> store.LocationVisit__ATTACH,
      DischargeMeasurement |-> store.DischargeMeasurement,
      DischargeMeasurement__ATTACH |-> store.DischargeMeasurement__ATTACH ]

\* editor.startEditing(with_undo = False, multiuser_mode = False): the edit
\* session works on its own state of the tables
migrate_startEditing(committed) ==
    [editing |-> TRUE, pending |-> TablesOf(committed)]

\* editor.stopEditing(save_changes): the state of the session is saved or
\* dropped
migrate_stopEditing(committed, ed, save_changes) ==
    [ gdb |-> IF save_changes
              THEN [ LocationVisit_fields |-> committed.LocationVisit_fields,
                     LocationVisit |-> ed.pending.LocationVisit,
                     LocationVisit__ATTACH |-> ed.pending.LocationVisit__ATTACH,
                     DischargeMeasurement |-> ed.pending.DischargeMeasurement,
                     DischargeMeasurement__ATTACH |-> ed.pending.DischargeMeasurement__ATTACH ]
              ELSE committed,
      editor |-> [editing |-> FALSE, pending |-> NoneObj] ]

\* arcpy.management.DeleteField on LocationVisit
delete_fields_discharge(committed) ==
    [committed EXCEPT
        !.LocationVisit_fields = @ \ DischargeFields,
        !.LocationVisit = {[GlobalID |-> row.GlobalID] : row \in @}]

NoMigrationLocals ==
    [ cursor_source |-> {}, row_source |-> NoneObj, target_globalid |-> None,
      cursor_source_attach |-> {}, row_source_attach |-> NoneObj,
      count_discharge_attachment |-> 0 ]

\* __main__ has connected, deleted the view LocationLastVisit, created the
\* table DischargeMeasurement and the relationship class, and calls
\* migrate_data_discharge
InitMigration ==
    /\ script = "update_database_hydro.5"
    /\ args = NoneObj
    /\ result = NoneObj
    /\ pc = "StartTransaction"
    /\ feedback = 0
    /\ n_read = 0
    /\ location = NoneObj
    /\ metrics_input = NoneObj
    /\ metrics_output = NoneObj
    /\ editor = [editing |-> FALSE, pending |-> NoneObj]
    /\ \E visits \in VisitTables, attachments \in VisitAttachmentTables :
         gdb = [ LocationVisit_fields |-> {"GlobalID"} \cup DischargeFields,
                 LocationVisit |-> visits,
                 LocationVisit__ATTACH |-> attachments,
                 DischargeMeasurement |-> {},
                 DischargeMeasurement__ATTACH |-> {} ]
    /\ locals = NoMigrationLocals
    /\ reports = NoneObj
    /\ last = [ gdb |-> gdb, sessions |-> 0, commits |-> 0, rollbacks |-> 0,
                failed |-> "", deleted_fields |-> 0 ]

\* "Starting transaction", and the three cursors opened after it
StartTransaction ==
    /\ script = "update_database_hydro.5"
    /\ pc = "StartTransaction"
    /\ editor' = migrate_startEditing(gdb)
    /\ locals' = [locals EXCEPT !.cursor_source =
                    {visit \in gdb.LocationVisit : has_discharge(gdb, visit)}]
    /\ last' = [last EXCEPT !.sessions = @ + 1]
    /\ pc' = "ReadDischargeRow"
    /\ UNCHANGED <<script, args, result, feedback, n_read, location, metrics_input,
                   metrics_output, gdb, reports>>

\* for row_source in cursor_source: the next row in the order the store
\* returns them, or the end of the loop
ReadDischargeRow ==
    /\ script = "update_database_hydro.5"
    /\ pc = "ReadDischargeRow"
    /\ IF locals.cursor_source = {}
       THEN /\ pc' = "CommitTransaction"
            /\ UNCHANGED <<n_read, locals>>
       ELSE \E row_source \in locals.cursor_source :
                /\ locals' = [locals EXCEPT !.cursor_source = @ \ {row_source},
                                            !.row_source = row_source]
                /\ n_read' = n_read + 1
                /\ pc' = "WriteDischargeRow"
    /\ UNCHANGED <<script, args, result, feedback, location, metrics_input,
                   metrics_output, editor, gdb, reports, last>>

\* A handler that saves the edits of the session
MigrationFailed_saving(step) ==
    /\ gdb' = migrate_stopEditing(gdb, editor, TRUE).gdb
    /\ editor' = migrate_stopEditing(gdb, editor, TRUE).editor
    /\ result' = [exc |-> "RuntimeError", msg |-> StoreError.msg]
    /\ last' = [last EXCEPT !.failed = step, !.rollbacks = @ + 1]
    /\ pc' = "Aborted"
    /\ UNCHANGED locals

\* except Exception of the three write steps: "Rolling back transaction",
\* editor.stopEditing(False) and raise RuntimeError(e), which nothing catches
MigrationFailed(step) ==
    /\ gdb' = migrate_stopEditing(gdb, editor, FALSE).gdb
    /\ editor' = migrate_stopEditing(gdb, editor, FALSE).editor
    /\ result' = [exc |-> "RuntimeError", msg |-> StoreError.msg]
    /\ last' = [last EXCEPT !.failed = step, !.rollbacks = @ + 1]
    /\ pc' = "Aborted"
    /\ UNCHANGED locals

\* "Write discharge row", then the cursors on the new row's GlobalID and on
\* the source attachments of the visit
WriteDischargeRow ==
    /\ script = "update_database_hydro.5"
    /\ pc = "WriteDischargeRow"
    /\ \E fault \in BOOLEAN :
         IF fault
         THEN MigrationFailed("discharge insert")
         ELSE LET row_target == discharge_row(editor.pending, locals.row_source)
              IN  /\ editor' = [editor EXCEPT !.pending.DischargeMeasurement =
                                    @ \cup {row_target}]
                  /\ locals' = [locals EXCEPT
                        !.target_globalid = row_target.GlobalID,
                        !.cursor_source_attach =
                            { attachment \in editor.pending.LocationVisit__ATTACH :
                                is_discharge_attachment(attachment,
                                                        locals.row_source.GlobalID) }]
                  /\ pc' = "ReadAttachment"
                  /\ UNCHANGED <<result, gdb, last>>
    /\ UNCHANGED <<script, args, feedback, n_read, location, metrics_input,
                   metrics_output, reports>>

\* for row_source_attach in cursor_source_attach
ReadAttachment ==
    /\ script = "update_database_hydro.5"
    /\ pc = "ReadAttachment"
    /\ IF locals.cursor_source_attach = {}
       THEN /\ pc' = "ReadDischargeRow"
            /\ UNCHANGED locals
       ELSE \E row_source_attach \in locals.cursor_source_attach :
                /\ locals' = [locals EXCEPT
                        !.cursor_source_attach = @ \ {row_source_attach},
                        !.row_source_attach = row_source_attach,
                        !.count_discharge_attachment = @ + 1]
                /\ pc' = "WriteAttachment"
    /\ UNCHANGED <<script, args, result, feedback, n_read, location, metrics_input,
                   metrics_output, editor, gdb, reports, last>>

\* "Write discharge attachment"
WriteAttachment ==
    /\ script = "update_database_hydro.5"
    /\ pc = "WriteAttachment"
    /\ \E fault \in BOOLEAN :
         IF fault
         THEN MigrationFailed("attachment insert")
         ELSE /\ editor' = [editor EXCEPT !.pending.DischargeMeasurement__ATTACH =
                    @ \cup {discharge_attachment_row(editor.pending,
                                locals.row_source_attach, locals.target_globalid)}]
              /\ pc' = "DeleteSourceAttachment"
              /\ UNCHANGED <<result, gdb, locals, last>>
    /\ UNCHANGED <<script, args, feedback, n_read, location, metrics_input,
                   metrics_output, reports>>

\* "Delete LocationVisit attachment": deleteRow on every row of the table
\* with the GLOBALID of the source attachment
DeleteSourceAttachment ==
    /\ script = "update_database_hydro.5"
    /\ pc = "DeleteSourceAttachment"
    /\ \E fault \in BOOLEAN :
         IF fault
         THEN MigrationFailed("source attachment delete")
         ELSE /\ editor' = [editor EXCEPT !.pending.LocationVisit__ATTACH =
                    {row \in @ : row.GLOBALID # locals.row_source_attach.GLOBALID}]
              /\ pc' = "ReadAttachment"
              /\ UNCHANGED <<result, gdb, locals, last>>
    /\ UNCHANGED <<script, args, feedback, n_read, location, metrics_input,
                   metrics_output, reports>>

\* "Committing transaction": editor.stopEditing(True); migrate_data_discharge
\* returns to __main__
CommitTransaction ==
    /\ script = "update_database_hydro.5"
    /\ pc = "CommitTransaction"
    /\ gdb' = migrate_stopEditing(gdb, editor, TRUE).gdb
    /\ editor' = migrate_stopEditing(gdb, editor, TRUE).editor
    /\ last' = [last EXCEPT !.commits = @ + 1]
    /\ pc' = "DeleteFieldsDischarge"
    /\ UNCHANGED <<script, args, result, feedback, n_read, location, metrics_input,
                   metrics_output, locals, reports>>

\* "Deleting discharge fields from LocationVisit", the last step of __main__
DeleteFieldsDischarge ==
    /\ script = "update_database_hydro.5"
    /\ pc = "DeleteFieldsDischarge"
    /\ gdb' = delete_fields_discharge(gdb)
    /\ last' = [last EXCEPT !.deleted_fields = @ + 1]
    /\ pc' = "Done"
    /\ UNCHANGED <<script, args, result, feedback, n_read, location, metrics_input,
                   metrics_output, editor, locals, reports>>

NextMigration ==
    \/ StartTransaction
    \/ ReadDischargeRow
    \/ WriteDischargeRow
    \/ ReadAttachment
    \/ WriteAttachment
    \/ DeleteSourceAttachment
    \/ CommitTransaction
    \/ DeleteFieldsDischarge

SpecMigration == InitMigration /\ [][NextMigration]_vars

----------------------------------------------------------------------------

(* The Metrics classes on their own: counter setters and total properties  *)

MaxCount == 2

\* A negative int, which _check_count refuses
NegativeCount == -2

\* Metrics._check_count: None and non-negative ints pass
_check_count(count) ==
    IF count = NoneCount
    THEN [exc |-> NoExc, value |-> NoneCount]
    ELSE IF count < 0
    THEN [exc |-> ValueError("Invalid Metrics count: Value cannot be negative"),
          value |-> NoneCount]
    ELSE [exc |-> NoExc, value |-> count]

\* The <kind>_total properties: Metrics of load_hydro_data.py, and
\* MetricsInput / MetricsOutput of load_hydro_photos.py
metric_total(class, m, kind) ==
    IF class = "Metrics"
    THEN _get_total(m[kind \o "_succeeded"], m[kind \o "_failed"])
    ELSE photos_get_total(m[kind \o "_succeeded"], m[kind \o "_failed"])

MetricKinds(class) ==
    IF class = "Metrics" THEN {"data_logger", "location", "measuring_point", "sensor"}
    ELSE IF class = "MetricsInput" THEN {"index", "metadata", "file"}
    ELSE {"location", "mp"}

\* The object the run works on
MetricsObject == IF script = "MetricsOutput" THEN metrics_output ELSE metrics_input

\* A fresh object of one of the three classes; the run sets and reads the
\* counters of one kind
InitMetrics ==
    /\ script \in {"Metrics", "MetricsInput", "MetricsOutput"}
    /\ \E kind \in MetricKinds(script) : args = [kind |-> kind]
    /\ metrics_input = IF script = "Metrics" THEN Metrics
                       ELSE IF script = "MetricsInput" THEN MetricsInput
                       ELSE NoneObj
    /\ metrics_output = IF script = "MetricsOutput" THEN MetricsOutput ELSE NoneObj
    /\ result = NoneObj
    /\ pc = "idle"
    /\ feedback = 0
    /\ n_read = 0
    /\ location = NoneObj
    /\ editor = NoneObj
    /\ gdb = NoneObj
    /\ locals = NoneObj
    /\ reports = NoneObj
    /\ last = [op |-> "init", before |-> NoneObj]

\* metrics.<kind>_succeeded = count, metrics.<kind>_failed = count
SetCounter ==
    /\ script \in {"Metrics", "MetricsInput", "MetricsOutput"}
    /\ \E which \in {"_succeeded", "_failed"},
          count \in {NoneCount, NegativeCount} \cup 0..MaxCount :
         LET checked == _check_count(count)
             after == IF checked.exc = NoExc
                      THEN [MetricsObject EXCEPT ![args.kind \o which] = checked.value]
                      ELSE MetricsObject
         IN  /\ result' = [exc |-> checked.exc]
             /\ IF script = "MetricsOutput"
                THEN metrics_output' = after /\ UNCHANGED metrics_input
                ELSE metrics_input' = after /\ UNCHANGED metrics_output
    /\ last' = [op |-> "set_counter", before |-> MetricsObject]
    /\ UNCHANGED <<script, args, pc, feedback, n_read, location, editor, gdb, locals,
                   reports>>

\* metrics.<kind>_total = count: the property has no setter
SetTotal ==
    /\ script \in {"Metrics", "MetricsInput", "MetricsOutput"}
    /\ \E count \in {NoneCount} \cup 0..MaxCount :
         result' = [exc |-> AttributeError("can't set attribute")]
    /\ last' = [op |-> "set_total", before |-> MetricsObject]
    /\ UNCHANGED <<script, args, pc, feedback, n_read, location, metrics_input,
                   metrics_output, editor, gdb, locals, reports>>

\* metrics.<kind>_total
GetTotal ==
    /\ script \in {"Metrics", "MetricsInput", "MetricsOutput"}
    /\ result' = [exc |-> NoExc, value |-> metric_total(script, MetricsObject, args.kind)]
    /\ last' = [op |-> "get_total", before |-> MetricsObject]
    /\ UNCHANGED <<script, args, pc, feedback, n_read, location, metrics_input,
                   metrics_output, editor, gdb, locals, reports>>

NextMetrics == SetCounter \/ SetTotal \/ GetTotal

SpecMetrics == InitMetrics /\ [][NextMetrics]_vars

----------------------------------------------------------------------------
(* Claims about load_data and load_photos                                  *)

\* The latest iteration of load_data ended as `outcome`, and no later row has
\* been fetched
Ended(outcome) ==
    /\ script = "load_data"
    /\ pc \in {"ReadSourceRow", "Done"}
    /\ last.outcome = outcome

NothingPending == editor.editing = FALSE /\ editor.pending = EmptyTables

\* Rows of a table that the latest iteration added to the target store
Added(table) == Cardinality(gdb[table]) - Cardinality(last.gdb[table])

\* C1: when a write step of a row's transaction fails, the transaction is
\* rolled back: the target tables hold exactly the rows they held before the
\* row was fetched (nothing of this row, everything of the earlier rows), and
\* no edit is left pending.
C1_RollbackAtomicity ==
    Ended("write_failed") => (gdb = last.gdb /\ NothingPending)

\* A Measuring Point write fails after the Location row of the same
\* transaction was inserted, with an earlier row committed
C1_Witness ==
    /\ Ended("write_failed")
    /\ last.step = "MeasuringPoints"
    /\ Cardinality(last.gdb.Location) > 0

\* C2: when a write step fails, the output failure counters grow by what the
\* transaction would have written: location_failed by 1, data_logger_failed
\* by 1 if the Location has a data logger, sensor_failed by the number of
\* sensors and measuring_point_failed by the number of measuring points.
C2_CascadingFailureMetrics ==
    Ended("write_failed") =>
        /\ metrics_output.location_failed = last.metrics_output.location_failed + 1
        /\ metrics_output.data_logger_failed =
                last.metrics_output.data_logger_failed
                    + (IF location.data_logger = NoneObj THEN 0 ELSE 1)
        /\ metrics_output.sensor_failed =
                last.metrics_output.sensor_failed + Len(location.sensors)
        /\ metrics_output.measuring_point_failed =
                last.metrics_output.measuring_point_failed
                    + Len(location.measuring_points)

\* C3: when every write step of a row succeeds the transaction is committed
\* and the output success counters grow by what the row added to the target
\* tables: one Location, the Data Logger if one was written, the Sensor rows
\* and the Measuring Point rows; no output failure counter changes.
C3_CommitMetrics ==
    Ended("committed") =>
        /\ NothingPending
        /\ Added("Location") = 1
        /\ Added("DataLogger") \in {0, 1}
        /\ metrics_output.location_succeeded =
                last.metrics_output.location_succeeded + 1
        /\ metrics_output.data_logger_succeeded =
                last.metrics_output.data_logger_succeeded + Added("DataLogger")
        /\ metrics_output.sensor_succeeded =
                last.metrics_output.sensor_succeeded + Added("Sensor")
        /\ metrics_output.measuring_point_succeeded =
                last.metrics_output.measuring_point_succeeded + Added("MeasuringPoint")
        /\ metrics_output.location_failed = last.metrics_output.location_failed
        /\ metrics_output.data_logger_failed = last.metrics_output.data_logger_failed
        /\ metrics_output.sensor_failed = last.metrics_output.sensor_failed
        /\ metrics_output.measuring_point_failed =
                last.metrics_output.measuring_point_failed

\* A commit that stored a Measuring Point row
C3_Witness == Ended("committed") /\ Added("MeasuringPoint") > 0

\* C4: when get_location raises ValueError the row is skipped: the input
\* location_failed counter grows by exactly 1, no other input counter and no
\* output counter changes, no transaction was started, no write_* function
\* was called, the target tables are untouched and the loop is back at its
\* head.
C4_RejectedRow ==
    Ended("rejected") =>
        /\ last.exc.exc = "ValueError"
        /\ metrics_input =
                [last.metrics_input EXCEPT !.location_failed = @ + 1]
        /\ metrics_output = last.metrics_output
        /\ last.sessions = 0
        /\ last.writes = <<>>
        /\ gdb = last.gdb
        /\ NothingPending

\* A row is rejected after an earlier row was committed
C4_Witness == Ended("rejected") /\ Cardinality(gdb.Location) > 0

\* C5: whatever the rows hold and whichever writes fail, no exception ends
\* load_data before Done: the loop is never left through an exception, and
\* every row fetched and finished is counted once in the input Location
\* total.
C5_RowFailuresAreLocal ==
    script = "load_data" =>
        /\ pc # "Aborted"
        /\ pc \in {"ReadSourceRow", "Done"} => location_total(metrics_input) = n_read

\* The row built from `object` carries every non-null attribute of it
covers(built, object, attributes) ==
    /\ built.exc = NoExc
    /\ \A a \in Range(attributes) :
            object[a] # None => (a \in DOMAIN built.row /\ built.row[a] = object[a])

\* Some row that the latest iteration added to `table` carries every
\* non-null attribute of `object`
Stored(table, object, attributes) ==
    \E row \in gdb[table] \ last.gdb[table] :
        covers([exc |-> NoExc, row |-> row.values], object, attributes)

\* C6: the row each write_* function builds names only attributes the
\* entity has and carries every non-null attribute of it, and after the
\* commit each entity of the Location is stored with those values.
C6_RoundTrip ==
    script = "load_data" =>
        /\ pc = "WriteLocation" =>
                covers(build_row(location, write_location_field_names),
                       location, Location_ATTRIBUTES)
        /\ (pc = "WriteDataLogger" /\ location.data_logger # NoneObj) =>
                covers(build_row(setattr(location.data_logger, "LocationGlobalID",
                                         locals.location_globalid),
                                 write_data_logger_field_names),
                       location.data_logger, DataLogger_ATTRIBUTES)
        /\ pc = "WriteSensors" =>
                \A i \in 1..Len(location.sensors) :
                    covers(build_row(setattr(location.sensors[i], "DataLoggerGlobalID",
                                             locals.data_logger_globalid),
                                     write_sensors_field_names),
                           location.sensors[i], Sensor_ATTRIBUTES)
        /\ pc = "WriteMeasuringPoints" =>
                \A i \in 1..Len(location.measuring_points) :
                    covers(build_row(setattr(location.measuring_points[i],
                                             "LocationGlobalID", locals.location_globalid),
                                     write_measuring_point_field_names),
                           location.measuring_points[i], MeasuringPoint_ATTRIBUTES)
        /\ Ended("committed") =>
                /\ Stored("Location", location, Location_ATTRIBUTES)
                /\ location.data_logger # NoneObj =>
                        Stored("DataLogger", location.data_logger, DataLogger_ATTRIBUTES)
                /\ \A i \in 1..Len(location.sensors) :
                        Stored("Sensor", location.sensors[i], Sensor_ATTRIBUTES)
                /\ \A i \in 1..Len(location.measuring_points) :
                        Stored("MeasuringPoint", location.measuring_points[i],
                               MeasuringPoint_ATTRIBUTES)

\* The reports a loader has logged when one falls due after every N-th
\* processed row, the last row included
Multiples(interval, rows) ==
    IF interval > 0
    THEN [k \in 1..(rows \div interval) |-> k * interval]
    ELSE <<>>

SpecLocationLoad == (InitLocation \/ Init) /\ [][NextLocation \/ Next]_vars

\* load_data has built the Location of the current row and counted it
LocationBuilt == script = "load_data" /\ pc = "BeginWriteTransaction"

\* C12: a successfully constructed Location holds as many Measuring Points,
\* accepted plus rejected, as source records were passed to its constructor,
\* and load_data adds the number accepted to the input counter
\* measuring_point_succeeded and the number rejected to measuring_point_failed.
C12_MeasuringPointAccounting ==
    /\ Succeeded =>
         Len(result.measuring_points) + result._rejected_measuring_point_count
            = Len(args.data_measuring_points)
    /\ LocationBuilt =>
         /\ Len(location.measuring_points) + location._rejected_measuring_point_count
              = Len(args.data_measuring_points)
         /\ metrics_input.measuring_point_succeeded
              = last.metrics_input.measuring_point_succeeded
                  + Len(location.measuring_points)
         /\ metrics_input.measuring_point_failed
              = last.metrics_input.measuring_point_failed
                  + location._rejected_measuring_point_count

C12_Witness ==
    /\ LocationBuilt
    /\ Len(args.data_measuring_points) = 2
    /\ Len(location.measuring_points) = 1
    /\ location._rejected_measuring_point_count = 1
    /\ metrics_input.measuring_point_failed = last.metrics_input.measuring_point_failed + 1

MetricsRun == script \in {"Metrics", "MetricsInput", "MetricsOutput"}

\* The total C18 describes
TotalByRule(succeeded, failed) ==
    IF succeeded = NoneCount /\ failed = NoneCount
    THEN NoneCount
    ELSE (IF succeeded = NoneCount THEN 0 ELSE succeeded)
            + (IF failed = NoneCount THEN 0 ELSE failed)

\* C18: for every kind of every Metrics object the total is None when both
\* counters are None and otherwise their sum with None counted as zero; the
\* object stores no total, reading a total returns that value, and an
\* assignment to a total raises and changes nothing.
C18_Total ==
    MetricsRun =>
        /\ \A kind \in MetricKinds(script) :
             /\ metric_total(script, MetricsObject, kind)
                  = TotalByRule(MetricsObject[kind \o "_succeeded"],
                                MetricsObject[kind \o "_failed"])
             /\ (kind \o "_total") \notin DOMAIN MetricsObject
        /\ last.op = "get_total" =>
             /\ result.exc = NoExc
             /\ result.value = TotalByRule(MetricsObject[args.kind \o "_succeeded"],
                                           MetricsObject[args.kind \o "_failed"])
        /\ last.op = "set_total" =>
             /\ result.exc # NoExc
             /\ MetricsObject = last.before

\* One counter disabled, the other counting: the total is the other counter
C18_Witness ==
    /\ script = "Metrics"
    /\ last.op = "get_total"
    /\ MetricsObject[args.kind \o "_succeeded"] = NoneCount
    /\ MetricsObject[args.kind \o "_failed"] = 2
    /\ result.value = 2

\* No two rows of an attachment table are on the same parent row with the
\* same file name
AtMostOnePerPair(rows) ==
    \A r1, r2 \in rows :
        (r1.rel_globalid = r2.rel_globalid /\ r1.att_name = r2.att_name) => r1 = r2

AlreadyExists == ValueError("Attachment already exists")

\* C19: loading a photo onto a parent row that already has an attachment of
\* that file name reports an error for that target and inserts nothing for
\* it, and whatever photos are loaded again, an attachment table never holds
\* two rows for one parent row and file name.
C19_Idempotent ==
    script = "load_photos" =>
        /\ AtMostOnePerPair(gdb.location__attach)
        /\ AtMostOnePerPair(gdb.measuringpoint__attach)
        /\ (last.outcome = "skipped" /\ last.step = "LocationAttachment.load") =>
             /\ last.exc = AlreadyExists
             /\ gdb.location__attach = last.gdb.location__attach
             /\ metrics_output.location_failed = last.metrics_output.location_failed + 1
        /\ (last.outcome = "skipped" /\ last.step = "MPAttachment.load") =>
             /\ last.exc = AlreadyExists
             /\ last.gdb.measuringpoint__attach \subseteq gdb.measuringpoint__attach
             /\ Cardinality(gdb.measuringpoint__attach)
                    - Cardinality(last.gdb.measuringpoint__attach)
                  + (metrics_output.mp_failed - last.metrics_output.mp_failed)
                  = Len(locals.photo.mp_uuids)

\* The same photo read a second time: its Location target is refused and
\* the one attachment of the first pass is all the table holds
C19_Witness ==
    /\ script = "load_photos"
    /\ n_read = 2
    /\ last.outcome = "skipped"
    /\ last.step = "LocationAttachment.load"
    /\ last.exc = AlreadyExists
    /\ Cardinality(gdb.location__attach) = 1
    /\ Cardinality(last.gdb.location__attach) = 1

\* The Location attachment of the latest photo failed: its metadata could
\* not be built (no parent row found) or its load was refused (duplicate)
LocationAttachmentFailed ==
    /\ script = "load_photos"
    /\ last.outcome = "skipped"
    /\ last.step \in {"LocationAttachment", "LocationAttachment.load"}

\* C20: when the Location attachment of a photo tagged for Location and
\* Measuring Point fails, the Measuring Point attachment of that photo is
\* still attempted and counted: mp_succeeded or mp_failed has grown since the
\* photo's index row was read.
C20_SiblingTargets ==
    (LocationAttachmentFailed /\ locals.photo.is_mp = TRUE) =>
        metrics_output.mp_succeeded + metrics_output.mp_failed
            > last.metrics_output.mp_succeeded + last.metrics_output.mp_failed

\* The latest iteration of load_photos has ended, by `continue` or at the
\* end of the loop body
PhotoEnded ==
    /\ script = "load_photos"
    /\ pc \in {"ReadIndexRow", "Done"}
    /\ last.outcome \in {"loaded", "skipped"}

\* How many rows of the parent table each target expression of the latest
\* photo's attachment of this kind selects
MatchCounts(kind) ==
    LET attachment == Attachment_initialize_attributes(kind, gdb, locals.photo)
    IN  [i \in 1..Len(where_clauses(attachment)) |->
            Cardinality(fetch_globalids(attachment, where_clauses(attachment)[i]))]

ExactlyOneEach(kind) == \A i \in DOMAIN MatchCounts(kind) : MatchCounts(kind)[i] = 1

\* The error of the first target expression that does not select one row
ResolutionError(kind) ==
    LET i == CHOOSE i \in DOMAIN MatchCounts(kind) :
                /\ MatchCounts(kind)[i] # 1
                /\ \A j \in 1..(i - 1) : MatchCounts(kind)[j] = 1
    IN  IF MatchCounts(kind)[i] = 0
        THEN ValueError("rel_globalid: Did not find row")
        ELSE ValueError("rel_globalid: Found multiple rows")

KnownContentType == guess_type(locals.photo.file_name) # None

\* The latest iteration constructed (or tried to) the attachment of the kind
LocationAttachmentAttempted ==
    /\ PhotoEnded
    /\ last.step \in {"LocationAttachment", "LocationAttachment.load",
                      "MPAttachment", "MPAttachment.load"}
    /\ locals.photo.is_location = TRUE

MPAttachmentAttempted ==
    /\ PhotoEnded
    /\ last.step \in {"MPAttachment", "MPAttachment.load"}
    /\ locals.photo.is_mp = TRUE

\* ... and the construction raised
LocationAttachmentRefused ==
    PhotoEnded /\ last.outcome = "skipped" /\ last.step = "LocationAttachment"

MPAttachmentRefused ==
    PhotoEnded /\ last.outcome = "skipped" /\ last.step = "MPAttachment"

\* C21: an attachment whose target expressions do not each select exactly
\* one parent row is never constructed: construction raises ValueError (for
\* a file of known content type, the error of the first expression that
\* selects no row or several), the attachment table of the kind keeps the
\* rows it had, the output failure counter of the kind grows by one and the
\* success counter does not, and the loop is back at its head.
C21_ForeignKeys ==
    script = "load_photos" =>
        /\ (LocationAttachmentAttempted /\ ~ExactlyOneEach("Location")) =>
                LocationAttachmentRefused
        /\ LocationAttachmentRefused =>
             /\ last.exc.exc = "ValueError"
             /\ KnownContentType =>
                    (~ExactlyOneEach("Location") /\ last.exc = ResolutionError("Location"))
             /\ gdb = last.gdb
             /\ metrics_output =
                    [last.metrics_output EXCEPT !.location_failed = @ + 1]
        /\ (MPAttachmentAttempted /\ ~ExactlyOneEach("MeasuringPoint")) =>
                MPAttachmentRefused
        /\ MPAttachmentRefused =>
             /\ last.exc.exc = "ValueError"
             /\ KnownContentType =>
                    (~ExactlyOneEach("MeasuringPoint")
                        /\ last.exc = ResolutionError("MeasuringPoint"))
             /\ gdb.measuringpoint__attach = last.gdb.measuringpoint__attach
             /\ metrics_output.mp_failed = last.metrics_output.mp_failed + 1
             /\ metrics_output.mp_succeeded = last.metrics_output.mp_succeeded

\* The second photo names a Measuring Point id that two rows carry: its
\* Location attachment was inserted, its Measuring Point attachment refused
C21_Witness ==
    /\ MPAttachmentRefused
    /\ n_read = 2
    /\ pc = "ReadIndexRow"
    /\ MatchCounts("MeasuringPoint") = <<1, 2>>
    /\ last.exc = ValueError("rel_globalid: Found multiple rows")
    /\ gdb.location__attach # last.gdb.location__attach

\* A photo of a Location the store does not hold
C21_WitnessNoRow ==
    /\ LocationAttachmentRefused
    /\ MatchCounts("Location") = <<0>>
    /\ last.exc = ValueError("rel_globalid: Did not find row")

\* The metadata of the index row in hand was built, and its tag columns hold
\* neither 'Site Photo' nor 'MP'
TaggedNeither ==
    /\ script = "load_photos"
    /\ n_read > 0
    /\ pc # "GatherMetadata"
    /\ Photo(args, "photo_dir").exc = NoExc
    /\ LET tag_columns == SelectTagColumns(args.fields)
       IN  \A i \in 1..Len(tag_columns) : args[tag_columns[i]] \notin {"Site Photo", "MP"}

\* C22: a photo tagged neither 'Site Photo' nor 'MP' is skipped at the tag
\* check: metadata_failed grows by one and no other input counter but the
\* index counter has moved, the file was not read, nothing was attached, no
\* output counter has changed and the loop is at its head.
C22_UntaggedRejected ==
    TaggedNeither =>
        /\ pc \in {"ReadIndexRow", "Done"}
        /\ last.outcome = "skipped"
        /\ last.step = "tags"
        /\ metrics_input = [last.metrics_input EXCEPT !.index_succeeded = @ + 1,
                                                      !.metadata_failed = @ + 1]
        /\ locals.photo.data = None
        /\ gdb = last.gdb
        /\ metrics_output = last.metrics_output

\* An untagged photo after a photo that was attached
C22_Witness ==
    /\ TaggedNeither
    /\ n_read = 2
    /\ last.step = "tags"
    /\ metrics_input.metadata_failed = 1
    /\ metrics_input.metadata_succeeded = 1
    /\ Cardinality(gdb.location__attach) = 1

\* The latest iteration has called load() on its attachment of the kind
AttachmentLoaded(kind) ==
    /\ PhotoEnded
    /\ IF kind = "Location"
       THEN /\ last.step \in {"LocationAttachment.load", "MPAttachment", "MPAttachment.load"}
            /\ locals.photo.is_location = TRUE
       ELSE /\ \/ last.step = "MPAttachment.load"
               \/ last.step = "MPAttachment" /\ last.outcome = "loaded"
            /\ locals.photo.is_mp = TRUE

AttachmentTable(kind) == table_name_attachment([kind |-> kind])

\* The parent rows the attachment of the kind was resolved to
Targets(kind) == Attachment(kind, gdb, locals.photo).rel_globalids

\* The parent row had an attachment of the photo's file name when the
\* iteration began
HadAttachment(kind, rel_globalid) ==
    \E row \in last.gdb[AttachmentTable(kind)] :
        /\ row.rel_globalid = rel_globalid
        /\ row.att_name = locals.photo.file_name

NewRows(kind) == gdb[AttachmentTable(kind)] \ last.gdb[AttachmentTable(kind)]

CollectedErrors(kind) == Len(Targets(kind)) - Cardinality(NewRows(kind))

FailedCounter(kind) == IF kind = "Location" THEN "location_failed" ELSE "mp_failed"
SucceededCounter(kind) == IF kind = "Location" THEN "location_succeeded" ELSE "mp_succeeded"

LoadedEveryTarget(kind) ==
    /\ last.gdb[AttachmentTable(kind)] \subseteq gdb[AttachmentTable(kind)]
    /\ \A row \in NewRows(kind) :
            /\ row.rel_globalid \in Range(Targets(kind))
            /\ row.att_name = locals.photo.file_name
            /\ row.data = locals.photo.data
    /\ \A i \in DOMAIN Targets(kind) :
            Cardinality({row \in NewRows(kind) : row.rel_globalid = Targets(kind)[i]})
                = (IF HadAttachment(kind, Targets(kind)[i]) THEN 0 ELSE 1)
    /\ metrics_output[FailedCounter(kind)]
            = last.metrics_output[FailedCounter(kind)] + CollectedErrors(kind)
    /\ metrics_output[SucceededCounter(kind)]
            = last.metrics_output[SucceededCounter(kind)]
                + (IF CollectedErrors(kind) = 0 THEN 1 ELSE 0)

\* C23: load() of an attachment goes through every parent row it was
\* resolved to: a parent row that already has an attachment of the file name
\* gets no row and gives one error, every other parent row gets exactly one
\* new row; the failure counter of the kind grows by the number of errors
\* and the success counter by one only when there was no error.
C23_EveryTarget ==
    script = "load_photos" =>
        \A kind \in {"Location", "MeasuringPoint"} :
            AttachmentLoaded(kind) => LoadedEveryTarget(kind)

\* A photo of two Measuring Points, the first of which already has the
\* file: one error, one insert, no success counted
C23_Witness ==
    /\ AttachmentLoaded("MeasuringPoint")
    /\ Len(Targets("MeasuringPoint")) = 2
    /\ HadAttachment("MeasuringPoint", Targets("MeasuringPoint")[1])
    /\ ~HadAttachment("MeasuringPoint", Targets("MeasuringPoint")[2])
    /\ Cardinality(NewRows("MeasuringPoint")) = 1
    /\ metrics_output.mp_failed = last.metrics_output.mp_failed + 1
    /\ metrics_output.mp_succeeded = last.metrics_output.mp_succeeded

\* The steps of load_data between startEditing and stopEditing
WritingSteps ==
    {"WriteLocation", "WriteDataLogger", "WriteSensors", "WriteMeasuringPoints", "Commit"}

\* C27: an edit session of load_data is open exactly while the loop is
\* between "Start transaction" and the stopEditing that ends the row, so
\* every write_* call is made inside one; an iteration starts at most one
\* session, only for a row whose Location was built, and has ended it once
\* (by commit or rollback) when the next row is read; nothing is pending
\* outside a session, and none is open when load_data has finished.
C27_TransactionProtocol ==
    script = "load_data" =>
        /\ editor.editing = (pc \in WritingSteps)
        /\ ~editor.editing => editor.pending = EmptyTables
        /\ last.sessions \in {0, 1}
        /\ pc = "BeginWriteTransaction" => last.sessions = 0
        /\ last.sessions = 1 =>
             get_location(args.data_aq_stations, args.district_matches,
                          args.data_measuring_points).exc = NoExc
        /\ last.ends = (IF pc \in WritingSteps THEN 0 ELSE last.sessions)
        /\ Len(last.writes) > 0 => last.sessions = 1
        /\ (last.sessions = 1 /\ pc \in {"ReadSourceRow", "Done"}) =>
             last.outcome \in {"committed", "write_failed"}
        /\ pc \in {"Done", "Aborted"} => ~editor.editing

\* The second row's transaction was rolled back after the first row's was
\* committed, and the loop is back at its head
C27_Witness ==
    /\ script = "load_data"
    /\ pc = "ReadSourceRow"
    /\ n_read = 2
    /\ last.outcome = "write_failed"
    /\ last.sessions = 1
    /\ last.ends = 1
    /\ Len(last.writes) >= 2
    /\ Cardinality(gdb.Location) = 1
    /\ ~editor.editing

\* load_data is between two iterations, or past the last one
IterationCompleted == script = "load_data" /\ pc \in {"ReadSourceRow", "Done"}

\* C28: after every completed iteration of load_data the input Location
\* total equals the number of source rows read, and the input
\* location_succeeded count equals the output location_succeeded count plus
\* the output location_failed count.
C28_LocationConservation ==
    IterationCompleted =>
        /\ location_total(metrics_input) = n_read
        /\ metrics_input.location_succeeded + metrics_input.location_failed = n_read
        /\ metrics_input.location_succeeded
              = metrics_output.location_succeeded + metrics_output.location_failed

\* Two Locations were built: one was committed, the other's write failed
C28_Witness ==
    /\ IterationCompleted
    /\ n_read = 2
    /\ metrics_input.location_succeeded = 2
    /\ metrics_output.location_succeeded = 1
    /\ metrics_output.location_failed = 1

\* A rejected row and a committed row
C28_WitnessRejected ==
    /\ IterationCompleted
    /\ n_read = 2
    /\ metrics_input.location_failed = 1
    /\ metrics_input.location_succeeded = 1
    /\ metrics_output.location_succeeded = 1
    /\ metrics_output.location_failed = 0

\* Output counters of a kind against the input succeeded counter of the kind
WithinInput(kind) ==
    metrics_output[kind \o "_succeeded"] + metrics_output[kind \o "_failed"]
        <= metrics_input[kind \o "_succeeded"]

\* C29: after every completed iteration of load_data, for data logger,
\* sensor and measuring point, the output succeeded count plus the output
\* failed count is at most the input succeeded count of the kind.
C29_OutputWithinInput ==
    IterationCompleted =>
        /\ WithinInput("data_logger")
        /\ WithinInput("sensor")
        /\ WithinInput("measuring_point")

\* The part of C29 about sensors and measuring points, which holds
C29_SensorsAndMeasuringPoints ==
    IterationCompleted => (WithinInput("sensor") /\ WithinInput("measuring_point"))

\* The steps of migrate_data_discharge between startEditing and stopEditing
MigrationSteps ==
    { "ReadDischargeRow", "WriteDischargeRow", "ReadAttachment", "WriteAttachment",
      "DeleteSourceAttachment", "CommitTransaction" }

\* The visits that cursor_source selects from the store the run started on,
\* and the attachments that cursor_source_attach selects for them
SourceRows == {visit \in last.gdb.LocationVisit : has_discharge(last.gdb, visit)}

SourceAttachments ==
    { attachment \in last.gdb.LocationVisit__ATTACH :
        \E visit \in SourceRows : is_discharge_attachment(attachment, visit.GlobalID) }

\* The rows of DischargeMeasurement written for a visit
MeasurementsOf(visit) ==
    {row \in gdb.DischargeMeasurement : row.LocationVisitGlobalID = visit.GlobalID}

\* Every source row has its one DischargeMeasurement row, and every source
\* attachment was moved to the DischargeMeasurement row of its visit
Migrated ==
    /\ \A visit \in SourceRows :
            /\ Cardinality(MeasurementsOf(visit)) = 1
            /\ \A row \in MeasurementsOf(visit) :
                    /\ row.RecordStart = visit.DischargeRecordStart
                    /\ row.RecordEnd = visit.DischargeRecordEnd
                    /\ row.Volume = visit.DischargeVolume
                    /\ row.Uncertainty = visit.DischargeUncertainty
                    /\ row.IsReviewed = "No"
    /\ Cardinality(gdb.DischargeMeasurement) = Cardinality(SourceRows)
    /\ \A attachment \in SourceAttachments :
            /\ attachment \notin gdb.LocationVisit__ATTACH
            /\ \E row \in gdb.DischargeMeasurement__ATTACH :
                    /\ row.ATT_NAME = attachment.ATT_NAME
                    /\ row.DATA = attachment.DATA
                    /\ row.KEYWORDS = attachment.KEYWORDS
                    /\ \E measurement \in gdb.DischargeMeasurement :
                            /\ measurement.LocationVisitGlobalID = attachment.REL_GLOBALID
                            /\ measurement.GlobalID = row.REL_GLOBALID
    /\ Cardinality(gdb.DischargeMeasurement__ATTACH) = Cardinality(SourceAttachments)
    /\ gdb.LocationVisit__ATTACH = last.gdb.LocationVisit__ATTACH \ SourceAttachments

DischargeFieldsDeleted == gdb.LocationVisit_fields \cap DischargeFields = {}

C26_WitnessCommitted ==
    /\ script = "update_database_hydro.5"
    /\ pc = "Done"
    /\ Cardinality(gdb.DischargeMeasurement) = 2
    /\ Cardinality(gdb.DischargeMeasurement__ATTACH) = 3
    /\ DischargeFieldsDeleted

=============================================================================
